---- MODULE Spec2Model ----
(***************************************************************************)
(* Doctor availability / unavailability handlers of med-connecter          *)
(* (src/handlers/doctor.handler.js) over the Doctor collection whose       *)
(* schema is the doctorSchema of src/routes/user.routes.js (lines 363-588),*)
(* the chat handler (src/unnamed/part_003) over the Message collection,    *)
(* and the auth handler (src/unnamed/part_004) over the User and Session   *)
(* collections.                                                            *)
(*                                                                         *)
(* Strings that the code compares with < and > (slot times) are modelled   *)
(* as sequences of UTF-16 code units, so that the comparison is the        *)
(* lexicographic one JavaScript performs.  Instants (JavaScript Date) are  *)
(* integers counting hours from 2024-06-10T00:00Z, a Monday; a calendar    *)
(* date "YYYY-MM-DD" is the integer number of days from 2024-06-10.        *)
(***************************************************************************)
EXTENDS Integers, Sequences, FiniteSets, TLC

VARIABLES
    doctors,    \* the Doctor collection, documents in insertion order
    response,   \* the response of the last handler call (with its request)
    before,     \* history: the Doctor collection as it was when that call began
    lastWrite,  \* history: the last successful write (write-tracking specification)
    calls,      \* in-flight calls (interleaved specifications)
    saves,      \* the version key of the doctor's document, counted from the
                \* start: the saves of those calls that have completed
    messages,   \* the Message collection, documents in insertion order
    users,      \* the User collection of the auth handler
    sessions,   \* the Session collection
    phoneFormat \* which function the helper formatPhoneNumber is: it is not in
                \* the sources, and it is the same function in every call

\* the collections of the chat and auth handlers, which no doctor handler touches
chatAuth == <<messages, users, sessions, phoneFormat>>

\* the state of the doctor handlers, which no chat or auth handler writes
doctorState == <<doctors, lastWrite, saves>>

vars ==
    <<doctors, response, before, lastWrite, calls, saves, messages, users, sessions,
      phoneFormat>>

----------------------------------------------------------------------------
(* Bounds of the model *)

\* calendar dates a request may name: days 0 .. MaxDay-1 from 2024-06-10
MaxDay == 3

\* concurrent calls in flight
MaxProcs == 2

\* messages the Message collection may hold
MaxMessages == 5

\* sessions the Session collection may hold
MaxSessions == 3

----------------------------------------------------------------------------
(* Program constants *)

\* 24 * 60 * 60 * 1000 ms, the step of the day loop, in hours
HoursPerDay == 24

\* code unit of ':' in the slot-time pattern
Colon == 58

\* code unit of '0'
Zero == 48

WeekdayNames ==
    <<"monday", "tuesday", "wednesday", "thursday", "friday", "saturday", "sunday">>

StatusEnum == {"DETAILS_REQUIRED", "DETAILS_UPDATED", "VERIFIED", "REJECTED"}

----------------------------------------------------------------------------
(* Strings as code-unit sequences *)

Min(a, b) == IF a < b THEN a ELSE b

\* "HH:MM", zero padded
HHMM(h, m) == <<Zero + (h \div 10), Zero + (h % 10), Colon, Zero + (m \div 10), Zero + (m % 10)>>

\* "H:MM", hour written with a single digit
HMM(h, m) == <<Zero + h, Colon, Zero + (m \div 10), Zero + (m % 10)>>

IsDigit(c) == c \in Zero .. (Zero + 9)

\* JavaScript a < b on two strings: the first differing code unit decides,
\* a proper prefix is smaller
StrLess(a, b) ==
    \E i \in 1 .. (Min(Len(a), Len(b)) + 1) :
        /\ \A j \in 1 .. (i - 1) : a[j] = b[j]
        /\ \/ i > Len(a) /\ i <= Len(b)
           \/ i <= Len(a) /\ i <= Len(b) /\ a[i] < b[i]

\* match: /^([0-1]?[0-9]|2[0-3]):[0-5][0-9]$/
MatchesTimePattern(s) ==
    \/ /\ Len(s) = 5
       /\ \/ s[1] \in {Zero, Zero + 1} /\ IsDigit(s[2])
          \/ s[1] = Zero + 2 /\ s[2] \in Zero .. (Zero + 3)
       /\ s[3] = Colon
       /\ s[4] \in Zero .. (Zero + 5)
       /\ IsDigit(s[5])
    \/ /\ Len(s) = 4
       /\ IsDigit(s[1])
       /\ s[2] = Colon
       /\ s[3] \in Zero .. (Zero + 5)
       /\ IsDigit(s[4])

\* the time of day a time string names, in minutes: [H]H:MM
Minutes(s) ==
    LET c == Len(s) - 2
        hour == IF c = 2 THEN s[1] - Zero ELSE (s[1] - Zero) * 10 + (s[2] - Zero)
    IN  hour * 60 + (s[c + 1] - Zero) * 10 + (s[c + 2] - Zero)

----------------------------------------------------------------------------
(* Dates *)

\* a date string of a request: "YYYY-MM-DD" (day), absent, or unparseable text
YMD(day) == [kind |-> "ymd", day |-> day]
AbsentDate == [kind |-> "absent", day |-> 0]
GarbageDate == [kind |-> "garbage", day |-> 0]

\* new Date(str): a date-only string is UTC midnight of that day
NewDate(s) ==
    IF s.kind = "ymd" THEN [valid |-> TRUE, t |-> s.day * HoursPerDay]
                      ELSE [valid |-> FALSE, t |-> 0]

\* the date field of a stored entry that has none (undefined)
NoDate == -HoursPerDay

\* d.toISOString().slice(0, 10): the UTC calendar date of an instant
toISODate(t) == t \div HoursPerDay

\* d.toLocaleDateString('en-US', { weekday: 'long' }).toLowerCase():
\* the weekday of the instant in the server's time zone (offset tz hours)
toLocaleWeekday(t, tz) == WeekdayNames[(((t + tz) \div HoursPerDay) % 7) + 1]

\* the weekday of a calendar date
WeekdayOfDate(day) == WeekdayNames[(day % 7) + 1]

----------------------------------------------------------------------------
(* Array helpers *)

\* Array.prototype.find: index of the first element satisfying P, 0 when none
FindIndex(s, P(_)) ==
    IF \E i \in 1 .. Len(s) : P(s[i])
    THEN CHOOSE i \in 1 .. Len(s) : P(s[i]) /\ \A j \in 1 .. (i - 1) : ~P(s[j])
    ELSE 0

RECURSIVE Flatten(_)
Flatten(ss) == IF ss = <<>> THEN <<>> ELSE Head(ss) \o Flatten(Tail(ss))

----------------------------------------------------------------------------
(* The Doctor schema and collection *)

\* an optional field of a request body
Absent == [present |-> FALSE, value |-> <<>>]
Given(v) == [present |-> TRUE, value |-> v]

Slot(a, b) == [startTime |-> a, endTime |-> b]

\* availability: day is required and one of the enum, startTime and endTime
\* are required and must match the time pattern
AvailabilityValid(availability) ==
    \A i \in 1 .. Len(availability) :
        /\ \E k \in 1 .. Len(WeekdayNames) : availability[i].day = WeekdayNames[k]
        /\ \A j \in 1 .. Len(availability[i].slots) :
              /\ MatchesTimePattern(availability[i].slots[j].startTime)
              /\ MatchesTimePattern(availability[i].slots[j].endTime)

\* unavailability: date is required, startTime and endTime are required
\* strings (any text)
UnavailabilityValid(unavailability) ==
    \A i \in 1 .. Len(unavailability) :
      /\ unavailability[i].date # NoDate
      /\ \A j \in 1 .. Len(unavailability[i].slots) :
            /\ Len(unavailability[i].slots[j].startTime) > 0
            /\ Len(unavailability[i].slots[j].endTime) > 0

\* u.date.toISOString() throws for some entry of the array: one without date
dateThrows(unavailability) ==
    \E i \in 1 .. Len(unavailability) : unavailability[i].date = NoDate

\* the validation doctor.save() runs: the required scalar fields
\* (registrationNumber, experience, consultationFee, about, clinicLocation.*;
\* `complete` stands for all but the first) and the two arrays
validate(doc) ==
    /\ doc.registrationNumber # ""
    /\ doc.complete
    /\ AvailabilityValid(doc.availability)
    /\ UnavailabilityValid(doc.unavailability)

\* doctorSchema.index({ registrationNumber: 1 }, { unique: true })
uniqueRegistrationNumber(coll, doc) ==
    \A i \in 1 .. Len(coll) :
        coll[i].id # doc.id => coll[i].registrationNumber # doc.registrationNumber

\* document ids in creation order
DoctorIds == <<"d1", "d2", "d3", "d4">>

\* Doctor.findOne({ userId }): index of the first document of the user, 0 when none
findOne(coll, userId) == FindIndex(coll, LAMBDA d : d.userId = userId)

\* the ids of the model that are 24 hex digits: those of the documents and
\* one that no document has
ObjectIds == {DoctorIds[k] : k \in DOMAIN DoctorIds} \cup {"d9"}

\* casting the id of a findById filter to ObjectId throws a CastError
castIdFails(id) == id \notin ObjectIds

\* Doctor.findById(id)
findById(coll, id) == FindIndex(coll, LAMBDA d : d.id = id)

\* the collection after the document is written (inserted when new)
store(coll, doc) ==
    IF findById(coll, doc.id) = 0
    THEN Append(coll, doc)
    ELSE [i \in 1 .. Len(coll) |-> IF coll[i].id = doc.id THEN doc ELSE coll[i]]

\* the users collection: every user of the model has role 'doctor'
UserNames == [u1 |-> "Anna Visser", u2 |-> "Bram Jansen"]

\* `${firstName} ${lastName}` of the populated userId
doctorName(doc) == UserNames[doc.userId]

\* the casting of one unavailability entry of a request body to the schema;
\* an entry without a date is cast to an entry without a date
castException(e) ==
    [date |-> IF e.date.kind = "absent" THEN NoDate ELSE NewDate(e.date).t,
     slots |-> e.slots, reason |-> e.reason]

castUnavailability(entries) == [i \in 1 .. Len(entries) |-> castException(entries[i])]

----------------------------------------------------------------------------
(* getAvailability: lines 624-707 *)

\* slot.startTime < uSlot.endTime && slot.endTime > uSlot.startTime
slotsOverlap(slot, uSlot) ==
    /\ StrLess(slot.startTime, uSlot.endTime)
    /\ StrLess(uSlot.startTime, slot.endTime)

\* slots.filter(slot => !unavail.slots.some(uSlot => ...))
subtractSlots(slots, uSlots) ==
    SelectSeq(slots, LAMBDA slot :
        ~ \E k \in 1 .. Len(uSlots) : slotsOverlap(slot, uSlots[k]))

\* doctor.availability.find(a => a.day === weekday)
findRecurring(doctor, weekday) ==
    FindIndex(doctor.availability, LAMBDA a : a.day = weekday)

\* doctor.unavailability.find(u => u.date.toISOString().slice(0, 10) === dateStr)
findUnavail(doctor, dateStr) ==
    FindIndex(doctor.unavailability, LAMBDA u : toISODate(u.date) = dateStr)

\* the find of line 680 reaches an entry without date before it finds one
\* for dateStr: u.date.toISOString() throws
findThrows(doctor, dateStr) ==
    \E i \in 1 .. Len(doctor.unavailability) :
        /\ dateThrows(<<doctor.unavailability[i]>>)
        /\ \A j \in 1 .. (i - 1) : toISODate(doctor.unavailability[j].date) # dateStr

\* the day loops throw for some doctor and some day of the range
loopThrows(docs, start, end) ==
    \E i \in 1 .. Len(docs) :
        \E d \in toISODate(start) .. toISODate(end) : findThrows(docs[i], d)

\* the body of the day loop tagging every record, whatever the request named
availabilityEntryTagged(doctor, d, tz, doctorId) ==
    LET dateStr == toISODate(d)
        weekday == toLocaleWeekday(d, tz)
        r == findRecurring(doctor, weekday)
        recurringSlots == IF r = 0 THEN <<>> ELSE doctor.availability[r].slots
        u == findUnavail(doctor, dateStr)
        slots == IF u = 0 THEN recurringSlots
                 ELSE subtractSlots(recurringSlots, doctor.unavailability[u].slots)
    IN  [date |-> dateStr, slots |-> slots,
         doctorId |-> doctor.id, doctorName |-> doctorName(doctor)]

\* the body of the day loop: the record pushed for instant d
availabilityEntry(doctor, d, tz, doctorId) ==
    LET dateStr == toISODate(d)
        weekday == toLocaleWeekday(d, tz)
        r == findRecurring(doctor, weekday)
        recurringSlots == IF r = 0 THEN <<>> ELSE doctor.availability[r].slots
        u == findUnavail(doctor, dateStr)
        slots == IF u = 0 THEN recurringSlots
                 ELSE subtractSlots(recurringSlots, doctor.unavailability[u].slots)
    IN  IF doctorId = ""
        THEN [date |-> dateStr, slots |-> slots,
              doctorId |-> doctor.id, doctorName |-> doctorName(doctor)]
        ELSE [date |-> dateStr, slots |-> slots]

\* the day loop stopping before the end date: d < end
RECURSIVE doctorAvailabilityExclusive(_, _, _, _, _)
doctorAvailabilityExclusive(doctor, d, end, tz, doctorId) ==
    IF d < end
    THEN <<availabilityEntry(doctor, d, tz, doctorId)>>
            \o doctorAvailabilityExclusive(doctor, d + HoursPerDay, end, tz, doctorId)
    ELSE <<>>

\* for (let d = new Date(start); d <= end; d = new Date(d.getTime() + 24h))
RECURSIVE doctorAvailability(_, _, _, _, _)
doctorAvailability(doctor, d, end, tz, doctorId) ==
    IF d <= end
    THEN <<availabilityEntry(doctor, d, tz, doctorId)>>
            \o doctorAvailability(doctor, d + HoursPerDay, end, tz, doctorId)
    ELSE <<>>

\* for (const doctor of doctors) allAvailability.push(...doctorAvailability)
allAvailability(docs, start, end, tz, doctorId) ==
    Flatten([i \in 1 .. Len(docs) |-> doctorAvailability(docs[i], start, end, tz, doctorId)])

\* a find without the status filter
findAnyStatus(coll) == coll

\* Doctor.find({ status: 'VERIFIED' }), in stored order
findVerified(coll) == SelectSeq(coll, LAMBDA d : d.status = "VERIFIED")

Reply(handler, status, req, body) ==
    [handler |-> handler, status |-> status, req |-> req, body |-> body]

\* the range check with >=: a range of one day is refused too
invalidRangeOrEqual(start, end) == ~start.valid \/ ~end.valid \/ start.t >= end.t

\* isNaN(start) || isNaN(end) || start > end
invalidRange(start, end) == ~start.valid \/ ~end.valid \/ start.t > end.t

\* the whole handler: the response for query q on a server whose zone offset is tz
getAvailabilityReply(coll, q, tz) ==
    LET req == [doctorId |-> q.doctorId, startDate |-> q.startDate,
                endDate |-> q.endDate, specialization |-> q.specialization,
                tz |-> tz]
        start == NewDate(q.startDate)
        end == NewDate(q.endDate)
        i == findById(coll, q.doctorId)
        docs == IF q.doctorId # "" THEN <<coll[i]>> ELSE findVerified(coll)
    IN  IF q.startDate.kind = "absent" \/ q.endDate.kind = "absent"
        THEN Reply("getAvailability", 400, req, "startDate and endDate are required")
        ELSE IF invalidRange(start, end)
        THEN Reply("getAvailability", 400, req, "Invalid date range")
        ELSE IF q.doctorId # "" /\ castIdFails(q.doctorId)
        THEN Reply("getAvailability", 500, req, "Failed to fetch availability")
        ELSE IF q.doctorId # "" /\ i = 0
        THEN Reply("getAvailability", 404, req, "Doctor not found")
        ELSE IF loopThrows(docs, start.t, end.t)
        THEN Reply("getAvailability", 500, req, "Failed to fetch availability")
        ELSE Reply("getAvailability", 200, req,
                   allAvailability(docs, start.t, end.t, tz, q.doctorId))

\* a getAvailability that saved each document without its exceptions
getAvailabilityClearing(coll, q, tz) ==
    <<[i \in DOMAIN coll |-> [coll[i] EXCEPT !.unavailability = <<>>]],
      getAvailabilityReply(coll, q, tz)>>

\* the handler as the collection it leaves and the response it sends: it
\* calls findById or find, and never save, create or an update
getAvailability(coll, q, tz) == <<coll, getAvailabilityReply(coll, q, tz)>>

\* the filter getDoctors builds from req.query (lines 523-533): a
\* specialization the document's array must contain, and verified 'true' or
\* 'false'.  The gender, language, price and rating filters (lines 535-553)
\* are built the same way in both handlers and are left out of the documents.
listed(doc, q) ==
    /\ q.specialization # "" =>
           \E k \in DOMAIN doc.specializations : doc.specializations[k] = q.specialization
    /\ q.verified = "true" => doc.status = "VERIFIED"
    /\ q.verified = "false" => doc.status # "VERIFIED"

\* .sort({ createdAt: -1 }) over a collection kept in creation order
newestFirst(docs) == [k \in 1 .. Len(docs) |-> docs[Len(docs) + 1 - k]]

\* getDoctors: the first page (limit 10) of the documents the filter selects
getDoctors(coll, q) ==
    <<coll, Reply("getDoctors", 200, q,
                  newestFirst(SelectSeq(coll, LAMBDA d : listed(d, q))))>>

----------------------------------------------------------------------------
(* The handlers that write a doctor, each as the collection it leaves and   *)
(* the response it sends: <<collection, reply>>                             *)

UserRoles == [u1 |-> "doctor", u2 |-> "doctor"]

\* the _id a new Doctor(...) gets
newId(coll) == DoctorIds[Len(coll) + 1]

\* await doctor.save(): validation, then the write under the unique index
saveSucceeds(coll, doc) == validate(doc) /\ uniqueRegistrationNumber(coll, doc)

\* registerDoctor: lines 740-800
registerDoctor(coll, userId) ==
    LET doc == [id |-> newId(coll), userId |-> userId, registrationNumber |-> "",
                status |-> "DETAILS_REQUIRED", complete |-> FALSE,
                specializations |-> <<>>,
                availability |-> <<>>, unavailability |-> <<>>]
    IN  IF UserRoles[userId] # "doctor"
        THEN <<coll, Reply("registerDoctor", 403, userId, "Only doctors can register")>>
        ELSE IF findOne(coll, userId) # 0
        THEN <<coll, Reply("registerDoctor", 400, userId, "Doctor profile already exists")>>
        ELSE IF saveSucceeds(coll, doc)
        THEN <<store(coll, doc), Reply("registerDoctor", 201, userId, doc.status)>>
        ELSE <<coll, Reply("registerDoctor", 500, userId, "Failed to register doctor")>>

\* verifyRegistrationNumber: lines 16-103; success is the answer of the
\* BIG register; the save runs with validateBeforeSave: false
verifyRegistrationNumber(coll, userId, registrationNumber, success) ==
    LET req == [userId |-> userId, registrationNumber |-> registrationNumber]
        i == findOne(coll, userId)
        doc == IF i = 0
               THEN [id |-> newId(coll), userId |-> userId,
                     registrationNumber |-> registrationNumber,
                     status |-> "DETAILS_REQUIRED", complete |-> FALSE,
                     specializations |-> <<>>,
                     availability |-> <<>>, unavailability |-> <<>>]
               ELSE [coll[i] EXCEPT !.registrationNumber = registrationNumber,
                                    !.status = IF success THEN "DETAILS_REQUIRED" ELSE @]
    IN  IF registrationNumber = ""
        THEN <<coll, Reply("verifyRegistrationNumber", 400, req, "Registration number is required")>>
        ELSE IF uniqueRegistrationNumber(coll, doc)
        THEN <<store(coll, doc), Reply("verifyRegistrationNumber", 200, req, doc.status)>>
        ELSE <<coll, Reply("verifyRegistrationNumber", 500, req, "Failed to verify registration number")>>

\* the fields a profile body gives a document; an array field the body
\* omits is assigned undefined, which leaves the stored array empty
profileFields(doc, body) ==
    [doc EXCEPT !.registrationNumber = body.registrationNumber,
                !.complete = body.profile # "incomplete",
                !.specializations = body.specializations,
                !.availability = body.availability.value,
                !.unavailability = castUnavailability(body.unavailability.value),
                !.status = "DETAILS_UPDATED"]

\* every date of the body's unavailability entries can be cast to a Date
datesCast(entries) == \A k \in 1 .. Len(entries) : NewDate(entries[k].date).valid

\* createOrUpdateProfile: lines 106-302; body.profile is "full" when the
\* checks of lines 196-257 pass, "minimal" when only the schema's required
\* fields are there, "incomplete" otherwise
createOrUpdateProfile(coll, userId, body) ==
    LET i == findOne(coll, userId)
        blank == [id |-> newId(coll), userId |-> userId, registrationNumber |-> "",
                  status |-> "DETAILS_REQUIRED", complete |-> FALSE,
                  specializations |-> <<>>,
                  availability |-> <<>>, unavailability |-> <<>>]
        doc == profileFields(IF i = 0 THEN blank ELSE coll[i], body)
        saved == datesCast(body.unavailability.value) /\ saveSucceeds(coll, doc)
    IN  IF UserRoles[userId] # "doctor"
        THEN <<coll, Reply("createOrUpdateProfile", 403, userId, "Only doctors")>>
        ELSE IF i = 0
        THEN IF saved
             THEN <<store(coll, doc), Reply("createOrUpdateProfile", 200, userId, "created")>>
             ELSE <<coll, Reply("createOrUpdateProfile", 500, userId, "Failed to update doctor profile")>>
        ELSE IF body.profile # "full"
        THEN <<coll, Reply("createOrUpdateProfile", 400, userId, "required")>>
        ELSE IF saved
        THEN <<store(coll, doc), Reply("createOrUpdateProfile", 200, userId, "updated")>>
        ELSE <<coll, Reply("createOrUpdateProfile", 500, userId, "Failed to update doctor profile")>>

\* { $set: req.body }: the fields the body holds replace the stored ones
setFields(doc, body) ==
    [doc EXCEPT !.availability = IF body.availability.present
                                 THEN body.availability.value ELSE @,
                !.unavailability = IF body.unavailability.present
                                   THEN castUnavailability(body.unavailability.value) ELSE @,
                !.status = IF body.status.present THEN body.status.value ELSE @]

\* a date of the body's unavailability entries is text that is no date
castFails(entries) == \E k \in 1 .. Len(entries) : entries[k].date.kind = "garbage"

\* updateProfile: lines 331-355; hasErrors is the outcome of the route's
\* validators; findByIdAndUpdate runs no schema validation
updateProfile(coll, userId, body, hasErrors) ==
    LET i == findOne(coll, userId)
    IN  IF hasErrors
        THEN <<coll, Reply("updateProfile", 400, userId, "errors")>>
        ELSE IF i = 0
        THEN <<coll, Reply("updateProfile", 404, userId, "Doctor profile not found")>>
        ELSE IF body.unavailability.present /\ castFails(body.unavailability.value)
        THEN <<coll, Reply("updateProfile", 500, userId, "Error updating doctor profile")>>
        ELSE <<store(coll, setFields(coll[i], body)), Reply("updateProfile", 200, userId, "updated")>>

\* verifyRegistration: lines 358-387; formatValid is isValidRegistrationNumber
verifyRegistration(coll, userId, registrationNumber, formatValid, hasErrors) ==
    LET i == findOne(coll, userId)
        doc == [coll[i] EXCEPT !.registrationNumber = registrationNumber,
                               !.status = "DETAILS_REQUIRED"]
    IN  IF hasErrors
        THEN <<coll, Reply("verifyRegistration", 400, userId, "errors")>>
        ELSE IF ~formatValid
        THEN <<coll, Reply("verifyRegistration", 400, userId, "Invalid registration number format")>>
        ELSE IF i = 0
        THEN <<coll, Reply("verifyRegistration", 404, userId, "Doctor profile not found")>>
        ELSE IF saveSucceeds(coll, doc)
        THEN <<store(coll, doc), Reply("verifyRegistration", 200, userId, "submitted")>>
        ELSE <<coll, Reply("verifyRegistration", 500, userId, "Error verifying registration")>>

\* an incremental patch instead: the given rules are added to the stored ones
updateAvailabilityAppending(coll, userId, availability) ==
    LET req == [userId |-> userId, availability |-> availability]
        i == findOne(coll, userId)
        doc == [coll[i] EXCEPT !.availability = @ \o availability.value]
    IN  IF i = 0
        THEN <<coll, Reply("updateAvailability", 404, req, "Doctor profile not found")>>
        ELSE IF saveSucceeds(coll, doc)
        THEN <<store(coll, doc), Reply("updateAvailability", 200, req, doc.availability)>>
        ELSE <<coll, Reply("updateAvailability", 500, req, "Failed to update availability")>>

\* updateAvailability: lines 710-737
updateAvailability(coll, userId, availability) ==
    LET req == [userId |-> userId, availability |-> availability]
        i == findOne(coll, userId)
        doc == [coll[i] EXCEPT !.availability = availability.value]
    IN  IF i = 0
        THEN <<coll, Reply("updateAvailability", 404, req, "Doctor profile not found")>>
        ELSE IF saveSucceeds(coll, doc)
        THEN <<store(coll, doc), Reply("updateAvailability", 200, req, doc.availability)>>
        ELSE <<coll, Reply("updateAvailability", 500, req, "Failed to update availability")>>

\* the filter comparing the stored Date with the date string itself, which
\* never matches: nothing is removed
removeDateUnnormalised(unavailability, date) ==
    SelectSeq(unavailability, LAMBDA u : [t |-> u.date] # date)

\* unavailability.filter(u => u.date.toISOString().slice(0, 10)
\*                            !== new Date(date).toISOString().slice(0, 10))
removeDate(unavailability, date) ==
    SelectSeq(unavailability, LAMBDA u : toISODate(u.date) # toISODate(NewDate(date).t))

\* unshift instead of push: the new entry goes first
unshiftException(unavailability, date, slots, reason) ==
    <<[date |-> NewDate(date).t, slots |-> slots, reason |-> reason]>> \o unavailability

\* unavailability.push({ date: new Date(date), slots, reason })
pushException(unavailability, date, slots, reason) ==
    Append(unavailability, [date |-> NewDate(date).t, slots |-> slots, reason |-> reason])

\* the synchronous part of addUnavailability after the read (lines 810-817):
\* the document as modified in memory
withException(doc, body) ==
    [doc EXCEPT !.unavailability =
        pushException(removeDate(doc.unavailability, body.date),
                      body.date, body.slots.items, body.reason)]

\* a save that does not ask for the version it read
versionIgnored(read, stored) == TRUE

\* the filter of the update save() sends for a $set of a whole array: the
\* version key read with the document must still be the stored one
versionMatches(read, stored) == read = stored

\* an atomic upsert instead: the new entry is put into the array as stored
\* at the time of the write
saveUnavailabilityMerged(coll, doc) ==
    LET new == doc.unavailability[Len(doc.unavailability)]
    IN  [i \in 1 .. Len(coll) |->
            IF coll[i].id = doc.id
            THEN [coll[i] EXCEPT !.unavailability =
                     Append(SelectSeq(@, LAMBDA u : toISODate(u.date) # toISODate(new.date)),
                            new)]
            ELSE coll[i]]

\* await doctor.save() of line 818: the update sets the one modified path,
\* the whole unavailability array of the document in memory, whatever the
\* stored array is by then
saveUnavailability(coll, doc) ==
    [i \in 1 .. Len(coll) |->
        IF coll[i].id = doc.id
        THEN [coll[i] EXCEPT !.unavailability = doc.unavailability]
        ELSE coll[i]]

\* the check without slots.length === 0: an empty slot list passes
addRejectedUnlessEmpty(body) ==
    \/ body.date.kind = "absent"
    \/ body.slots.kind # "array"

\* !date || !Array.isArray(slots) || slots.length === 0
addRejected(body) ==
    \/ body.date.kind = "absent"
    \/ body.slots.kind # "array"
    \/ Len(body.slots.items) = 0

\* addUnavailability: lines 803-824; new Date(date).toISOString() throws
\* for a date that does not parse, and such a date fails the cast as well;
\* u.date.toISOString() throws for a stored entry without date
addUnavailability(coll, userId, body) ==
    LET req == [userId |-> userId, date |-> body.date, slots |-> body.slots,
                reason |-> body.reason]
        i == findOne(coll, userId)
        doc == withException(coll[i], body)
    IN  IF i = 0
        THEN <<coll, Reply("addUnavailability", 404, req, "Doctor profile not found")>>
        ELSE IF addRejected(body)
        THEN <<coll, Reply("addUnavailability", 400, req, "date and slots are required")>>
        ELSE IF /\ NewDate(body.date).valid
                /\ ~dateThrows(coll[i].unavailability)
                /\ saveSucceeds(coll, doc)
        THEN <<store(coll, doc), Reply("addUnavailability", 200, req, doc.unavailability)>>
        ELSE <<coll, Reply("addUnavailability", 500, req, "Failed to add unavailability")>>

\* removeUnavailability: lines 827-845; the filter callback (which throws
\* for a date that does not parse) runs only when the array has elements
removeUnavailability(coll, userId, date) ==
    LET req == [userId |-> userId, date |-> date]
        i == findOne(coll, userId)
        throws == \/ ~NewDate(date).valid /\ Len(coll[i].unavailability) > 0
                  \/ dateThrows(coll[i].unavailability)
        doc == [coll[i] EXCEPT !.unavailability =
                    IF NewDate(date).valid /\ ~throws THEN removeDate(@, date) ELSE @]
    IN  IF i = 0
        THEN <<coll, Reply("removeUnavailability", 404, req, "Doctor profile not found")>>
        ELSE IF date.kind = "absent"
        THEN <<coll, Reply("removeUnavailability", 400, req, "date is required")>>
        ELSE IF ~throws /\ saveSucceeds(coll, doc)
        THEN <<store(coll, doc), Reply("removeUnavailability", 200, req, doc.unavailability)>>
        ELSE <<coll, Reply("removeUnavailability", 500, req, "Failed to remove unavailability")>>

\* the admin's approval or rejection of a profile ("Waiting for admin
\* approval", lines 190 and 292); the admin handler is not part of the
\* source at hand
adminReview(coll, id, status) ==
    LET i == findById(coll, id)
    IN  IF i = 0
        THEN <<coll, Reply("adminReview", 404, id, "Doctor not found")>>
        ELSE <<store(coll, [coll[i] EXCEPT !.status = status]),
               Reply("adminReview", 200, id, status)>>

----------------------------------------------------------------------------
(* Requests *)

Days == 0 .. (MaxDay - 1)

\* zone offsets of the server, in hours: New York (winter), UTC, Amsterdam (summer)
TZOffsets == {-5, 0, 2}

\* weekly rules: unsorted slots that touch one another
MondayClinic ==
    <<[day |-> "monday",
       slots |-> <<Slot(HHMM(11, 0), HHMM(12, 0)), Slot(HHMM(9, 0), HHMM(10, 0)),
                   Slot(HHMM(10, 0), HHMM(11, 0))>>]>>

\* weekly rules: several days, overlapping slots, two rules for one weekday
WeekPlan ==
    <<[day |-> "sunday", slots |-> <<Slot(HHMM(9, 0), HHMM(12, 0))>>],
      [day |-> "tuesday",
       slots |-> <<Slot(HHMM(10, 0), HHMM(11, 0)), Slot(HHMM(10, 30), HHMM(11, 30)),
                   Slot(HHMM(11, 0), HHMM(12, 0))>>],
      [day |-> "monday", slots |-> <<Slot(HHMM(9, 0), HHMM(12, 0))>>],
      [day |-> "monday", slots |-> <<Slot(HHMM(13, 0), HHMM(14, 0))>>]>>

\* a rule whose start time is not zero-padded, which the pattern accepts
EarlyClinic == <<[day |-> "monday", slots |-> <<Slot(HMM(9, 0), HHMM(11, 0))>>]>>

\* weekly rules the schema rejects: "24:00" does not match the pattern
BadTimes == <<[day |-> "monday", slots |-> <<Slot(HHMM(24, 0), HHMM(25, 0))>>]>>

\* exception slots
Morning == <<Slot(HHMM(10, 0), HHMM(11, 0))>>
Breaks == <<Slot(HHMM(10, 30), HHMM(10, 45)), Slot(HHMM(11, 15), HHMM(11, 30))>>

SlotsArray(items) == [kind |-> "array", items |-> items]

AddBody(date, slots, reason) == [date |-> date, slots |-> slots, reason |-> reason]

\* bodies addUnavailability accepts
GoodAddBodies ==
    {AddBody(YMD(d), SlotsArray(Morning), "leave") : d \in Days}
        \cup {AddBody(YMD(0), SlotsArray(Breaks), "conference")}

\* bodies it refuses, or whose save fails
BadAddBodies ==
    {AddBody(AbsentDate, SlotsArray(Morning), "leave"),
     AddBody(GarbageDate, SlotsArray(Morning), "leave"),
     AddBody(YMD(0), [kind |-> "absent", items |-> <<>>], "leave"),
     AddBody(YMD(0), [kind |-> "string", items |-> <<>>], "leave"),
     AddBody(YMD(0), SlotsArray(<<>>), "leave"),
     AddBody(YMD(0), SlotsArray(<<Slot(HHMM(10, 0), <<>>)>>), "leave")}

AddBodies == GoodAddBodies \cup BadAddBodies

DateInputs == {YMD(d) : d \in Days} \cup {AbsentDate, GarbageDate}

\* an unavailability array with two entries for one date
TwoForOneDate ==
    <<[date |-> YMD(0), slots |-> Morning, reason |-> "leave"],
      [date |-> YMD(0), slots |-> Breaks, reason |-> "conference"]>>

\* an unavailability array whose entry has no date
Undated == <<[date |-> AbsentDate, slots |-> Morning, reason |-> "leave"]>>

\* a profile body; it names one specialization, which the check of line 196
\* demands of a "full" one
ProfileBody(registrationNumber, profile, availability, unavailability) ==
    [registrationNumber |-> registrationNumber, profile |-> profile,
     specializations |-> <<"cardiology">>,
     availability |-> availability, unavailability |-> unavailability]

ProfileBodies ==
    {ProfileBody("BIG1", "full", Given(MondayClinic), Absent),
     ProfileBody("BIG1", "full", Absent, Given(TwoForOneDate)),
     ProfileBody("BIG1", "minimal", Absent, Absent),
     ProfileBody("BIG1", "incomplete", Given(MondayClinic), Absent),
     ProfileBody("", "full", Given(MondayClinic), Absent)}

UpdateBody(availability, unavailability, status) ==
    [availability |-> availability, unavailability |-> unavailability, status |-> status]

UpdateBodies ==
    {UpdateBody(Given(WeekPlan), Absent, Absent),
     UpdateBody(Absent, Given(TwoForOneDate), Absent),
     UpdateBody(Absent, Given(Undated), Absent),
     UpdateBody(Absent, Absent, Given("VERIFIED"))}

\* req.query of getAvailability with no specialization parameter
Query(doctorId, startDate, endDate) ==
    [doctorId |-> doctorId, startDate |-> startDate, endDate |-> endDate,
     specialization |-> ""]

\* date ranges that pass the check of lines 629-637: every single day and
\* the whole window
GoodRanges == {<<YMD(d), YMD(d)>> : d \in Days} \cup {<<YMD(0), YMD(MaxDay - 1)>>}

\* ranges it rejects: inverted, a date missing, a date that does not parse
BadRanges == {<<YMD(1), YMD(0)>>, <<AbsentDate, YMD(0)>>, <<YMD(0), GarbageDate>>}

\* queries with the zone of the server that answers: one doctor by id over
\* every range in every zone, all doctors over the window, an id no
\* document has, and an id that is no ObjectId
Queries ==
    {<<Query("d1", r[1], r[2]), tz>> : r \in GoodRanges, tz \in TZOffsets}
        \cup {<<Query("d1", r[1], r[2]), 0>> : r \in BadRanges}
        \cup {<<Query("", YMD(0), YMD(MaxDay - 1)), 0>>, <<Query("d9", YMD(0), YMD(0)), 0>>,
              <<Query("abc", YMD(0), YMD(0)), 0>>}

----------------------------------------------------------------------------
(* The sequential specification: one handler call at a time *)

NoReply == Reply("none", 0, <<>>, <<>>)

Procs == 1 .. MaxProcs

Idle ==
    [pc |-> "idle", body |-> <<>>, doc |-> <<>>, readAt |-> 0, triedAt |-> 0,
     status |-> 0]


NoWrite ==
    [kind |-> "none", userId |-> "", day |-> 0, slots |-> <<>>,
     undoes |-> FALSE, withheld |-> FALSE]

Init ==
    /\ doctors = <<>>
    /\ response = NoReply
    /\ before = <<>>
    /\ lastWrite = NoWrite
    /\ calls = [p \in Procs |-> Idle]
    /\ saves = 0
    /\ messages = <<>>
    /\ users = <<>>
    /\ sessions = <<>>
    /\ phoneFormat = "asGiven"

\* a handler call that ends with collection result[1] and response result[2]
Call(result) ==
    \E r \in {result} :
        /\ doctors' = r[1]
        /\ response' = r[2]
        /\ before' = doctors
        /\ UNCHANGED <<lastWrite, calls, saves, chatAuth>>

RegisterDoctor(u) == Call(registerDoctor(doctors, u))

VerifyRegistrationNumber(u, r, success) ==
    Call(verifyRegistrationNumber(doctors, u, r, success))

CreateOrUpdateProfile(u, body) == Call(createOrUpdateProfile(doctors, u, body))

UpdateProfile(u, body, hasErrors) == Call(updateProfile(doctors, u, body, hasErrors))

VerifyRegistration(u, r, formatValid, hasErrors) ==
    Call(verifyRegistration(doctors, u, r, formatValid, hasErrors))

UpdateAvailability(u, availability) == Call(updateAvailability(doctors, u, availability))

AddUnavailability(u, body) == Call(addUnavailability(doctors, u, body))

RemoveUnavailability(u, date) == Call(removeUnavailability(doctors, u, date))

AdminReview(id, status) == Call(adminReview(doctors, id, status))

GetAvailability(q, tz) == Call(getAvailability(doctors, q, tz))

Users == {"u1"}

Next ==
    \/ \E u \in Users : RegisterDoctor(u)
    \/ \E u \in Users, r \in {"", "BIG1"}, success \in BOOLEAN :
          VerifyRegistrationNumber(u, r, success)
    \/ \E u \in Users, body \in ProfileBodies : CreateOrUpdateProfile(u, body)
    \/ \E u \in Users, body \in UpdateBodies, hasErrors \in BOOLEAN :
          UpdateProfile(u, body, hasErrors)
    \/ \E u \in Users, formatValid \in BOOLEAN, hasErrors \in BOOLEAN :
          VerifyRegistration(u, "BIG1", formatValid, hasErrors)
    \/ \E u \in Users, a \in {Absent, Given(MondayClinic), Given(WeekPlan), Given(BadTimes)} :
          UpdateAvailability(u, a)
    \/ \E u \in Users, body \in AddBodies : AddUnavailability(u, body)
    \/ \E u \in Users, date \in DateInputs : RemoveUnavailability(u, date)
    \/ \E id \in {"d1"}, status \in {"VERIFIED"} : AdminReview(id, status)
    \/ \E q \in Queries : GetAvailability(q[1], q[2])

Spec == Init /\ [][Next]_vars

----------------------------------------------------------------------------
(* Vocabulary of the properties *)

GotAvailability == response.handler = "getAvailability" /\ response.status = 200

\* the stored document a record of the answer was computed from
OwnerOf(rec) ==
    LET id == IF response.req.doctorId # "" THEN response.req.doctorId ELSE rec.doctorId
    IN  doctors[findById(doctors, id)]

\* the indices of the exception entries a document has for a calendar date
EntriesFor(doc, day) ==
    {i \in 1 .. Len(doc.unavailability) : toISODate(doc.unavailability[i].date) = day}

\* the entry for that date the resolver looks up: the first one
LookedUp(doc, day) ==
    doc.unavailability[CHOOSE i \in EntriesFor(doc, day) :
                           \A j \in EntriesFor(doc, day) : i <= j]

\* the slots of the first weekly rule of a weekday, none when there is no rule
RuleSlots(doc, weekday) ==
    LET rules == {i \in 1 .. Len(doc.availability) : doc.availability[i].day = weekday}
    IN  IF rules = {} THEN <<>>
        ELSE doc.availability[CHOOSE i \in rules : \A j \in rules : i <= j].slots

\* the open-interval overlap test of the specification, on time strings
\* compared lexicographically
Overlapping(slot, ex) ==
    StrLess(slot.startTime, ex.endTime) /\ StrLess(ex.startTime, slot.endTime)

Hit(slot, exSlots) == \E k \in 1 .. Len(exSlots) : Overlapping(slot, exSlots[k])

\* the weekly slots the resolver started from for a record of the answer
BaseOf(rec) ==
    RuleSlots(OwnerOf(rec), toLocaleWeekday(rec.date * HoursPerDay, response.req.tz))

----------------------------------------------------------------------------
\* every slot of every exception entry a document has for a calendar date
ExceptionSlots(doc, day) ==
    UNION {{doc.unavailability[i].slots[k] : k \in 1 .. Len(doc.unavailability[i].slots)} :
              i \in EntriesFor(doc, day)}

(* C1: for every record of an answer of getAvailability whose date has an   *)
(* unavailability exception, the returned slots are exactly the slots of    *)
(* the weekly rule of the date's weekday that no exception slot of the date *)
(* overlaps (start < exEnd and end > exStart): an overlapping slot is       *)
(* dropped whole, a slot that only touches a boundary is kept, and the      *)
(* survivors are returned unchanged in their original order.                *)
C1_SubtractionLaw ==
    GotAvailability =>
        \A n \in 1 .. Len(response.body) :
            LET rec == response.body[n]
                doc == OwnerOf(rec)
                base == RuleSlots(doc, WeekdayOfDate(rec.date))
            IN  EntriesFor(doc, rec.date) # {} =>
                    rec.slots = SelectSeq(base, LAMBDA slot :
                        \A ex \in ExceptionSlots(doc, rec.date) : ~Overlapping(slot, ex))

----------------------------------------------------------------------------
(* C2: every doctor's unavailability array holds at most one exception      *)
(* entry per calendar date.                                                 *)
C2_OneExceptionPerDate ==
    \A d \in 1 .. Len(doctors) :
        \A i, j \in 1 .. Len(doctors[d].unavailability) :
            i # j => toISODate(doctors[d].unavailability[i].date)
                        # toISODate(doctors[d].unavailability[j].date)

----------------------------------------------------------------------------
(* C4: the availability and unavailability of an existing doctor are        *)
(* changed only by updateAvailability, addUnavailability and                *)
(* removeUnavailability.                                                    *)
C4_OnlyScheduleHandlersWrite ==
    \A d \in 1 .. Len(before) :
        (\/ doctors[d].availability # before[d].availability
         \/ doctors[d].unavailability # before[d].unavailability)
            => response.handler \in
                 {"updateAvailability", "addUnavailability", "removeUnavailability"}

----------------------------------------------------------------------------
(* C5: for every record of an answer, the weekly rule consulted is the rule *)
(* of the weekday of the calendar date in the record's date field, whatever *)
(* the time zone of the server.                                             *)
C5_WeekdayOfEmittedDate ==
    GotAvailability =>
        \A n \in 1 .. Len(response.body) :
            LET rec == response.body[n]
                doc == OwnerOf(rec)
                base == RuleSlots(doc, WeekdayOfDate(rec.date))
            IN  rec.slots =
                    IF EntriesFor(doc, rec.date) = {} THEN base
                    ELSE SelectSeq(base, LAMBDA slot :
                            ~Hit(slot, LookedUp(doc, rec.date).slots))

----------------------------------------------------------------------------
AddedUnavailability == response.handler = "addUnavailability" /\ response.status = 200

\* the position of the caller's document, the same before and after the call
CallerDoc == findOne(doctors, response.req.userId)

(* C8: after a successful addUnavailability the doctor has exactly one      *)
(* exception entry for the date, and it carries the slots and the reason of *)
(* this call, also when an entry with other slots was there before.         *)
C8_ReplaceOnWrite ==
    AddedUnavailability =>
        LET doc == doctors[CallerDoc]
            day == response.req.date.day
        IN  /\ Cardinality(EntriesFor(doc, day)) = 1
            /\ LookedUp(doc, day).slots = response.req.slots.items
            /\ LookedUp(doc, day).reason = response.req.reason

\* the second call for a date: an entry with other slots was there before
C8_Witness ==
    /\ AddedUnavailability
    /\ LET old == before[CallerDoc]
           day == response.req.date.day
       IN  /\ EntriesFor(old, day) # {}
           /\ LookedUp(old, day).slots # response.req.slots.items
           /\ LookedUp(old, day).reason # response.req.reason

----------------------------------------------------------------------------
(* C9: a successful addUnavailability keeps every entry of another date,    *)
(* with its content and in the same relative order, puts the new entry      *)
(* last, and changes neither the weekly availability nor anything else of   *)
(* this or another doctor.                                                  *)
C9_AddFrame ==
    AddedUnavailability =>
        LET old == before[CallerDoc]
            new == doctors[CallerDoc]
            day == response.req.date.day
            n == Len(new.unavailability)
        IN  /\ n >= 1
            /\ new.unavailability[n] =
                  [date |-> day * HoursPerDay, slots |-> response.req.slots.items,
                   reason |-> response.req.reason]
            /\ SubSeq(new.unavailability, 1, n - 1) =
                  SelectSeq(old.unavailability, LAMBDA u : toISODate(u.date) # day)
            /\ new.availability = old.availability
            /\ [new EXCEPT !.unavailability = old.unavailability] = old
            /\ Len(doctors) = Len(before)
            /\ \A j \in 1 .. Len(doctors) : j # CallerDoc => doctors[j] = before[j]

\* the entry replaced stood first of three: the two others move up, in order
C9_Witness ==
    /\ AddedUnavailability
    /\ LET old == before[CallerDoc]
           new == doctors[CallerDoc]
       IN  /\ Len(old.unavailability) = 3
           /\ toISODate(old.unavailability[1].date) = response.req.date.day
           /\ new.unavailability[1] = old.unavailability[2]
           /\ new.unavailability[2] = old.unavailability[3]
           /\ new.availability # <<>>

----------------------------------------------------------------------------
(* The write-tracking specification: the sequential handlers of one doctor, *)
(* with the history of the last successful write                            *)

\* the document a record of an answer to req was computed from
OwnerIn(coll, req, rec) ==
    coll[findById(coll, IF req.doctorId # "" THEN req.doctorId ELSE rec.doctorId)]

\* an answer shows fewer slots than the weekly rule for the date of write w
Withholds(coll, reply, w) ==
    /\ reply.status = 200
    /\ \E n \in 1 .. Len(reply.body) :
          LET rec == reply.body[n]
              doc == OwnerIn(coll, reply.req, rec)
          IN  /\ doc.userId = w.userId
              /\ rec.date = w.day
              /\ Len(rec.slots) <
                    Len(RuleSlots(doc, toLocaleWeekday(rec.date * HoursPerDay, reply.req.tz)))

\* the history after a call that left collection coll and sent reply
Tracked(w, coll, reply) ==
    IF reply.handler = "getAvailability"
    THEN IF w.kind = "add" /\ Withholds(coll, reply, w)
         THEN [w EXCEPT !.withheld = TRUE] ELSE w
    ELSE IF reply.status \notin {200, 201}
    THEN w
    ELSE IF reply.handler = "addUnavailability"
    THEN [kind |-> "add", userId |-> reply.req.userId, day |-> reply.req.date.day,
          slots |-> reply.req.slots.items, undoes |-> FALSE, withheld |-> FALSE]
    ELSE IF reply.handler = "removeUnavailability" /\ reply.req.date.kind = "ymd"
    THEN LET same == /\ w.kind = "add"
                     /\ w.userId = reply.req.userId
                     /\ w.day = reply.req.date.day
         IN  [kind |-> "remove", userId |-> reply.req.userId, day |-> reply.req.date.day,
              slots |-> w.slots, undoes |-> same, withheld |-> same /\ w.withheld]
    ELSE [NoWrite EXCEPT !.kind = "other"]

TrackedCall(result) ==
    \E r \in {result} :
        /\ doctors' = r[1]
        /\ response' = r[2]
        /\ before' = doctors
        /\ lastWrite' = Tracked(lastWrite, r[1], r[2])
        /\ UNCHANGED <<calls, saves, chatAuth>>

\* single-day queries for the doctor in every zone
DayQueries == {<<Query("d1", YMD(d), YMD(d)), tz>> : d \in Days, tz \in TZOffsets}

NextTracked ==
    \/ \E body \in ProfileBodies :
          TrackedCall(createOrUpdateProfile(doctors, "u1", body))
    \/ \E body \in UpdateBodies :
          TrackedCall(updateProfile(doctors, "u1", body, FALSE))
    \/ \E a \in {Given(MondayClinic), Given(WeekPlan), Given(EarlyClinic)} :
          TrackedCall(updateAvailability(doctors, "u1", a))
    \/ \E body \in AddBodies : TrackedCall(addUnavailability(doctors, "u1", body))
    \/ \E date \in DateInputs : TrackedCall(removeUnavailability(doctors, "u1", date))
    \/ \E q \in DayQueries :
          TrackedCall(getAvailability(doctors, q[1], q[2]))

SpecTracked == Init /\ [][NextTracked]_vars

\* the records of the current answer for the doctor and date of the last write
RecordsOfLastWrite ==
    {n \in 1 .. Len(response.body) :
        /\ OwnerOf(response.body[n]).userId = lastWrite.userId
        /\ response.body[n].date = lastWrite.day}

\* two slots share a stretch of the day
OverlapsInTime(slot, ex) ==
    /\ Minutes(slot.startTime) < Minutes(ex.endTime)
    /\ Minutes(ex.startTime) < Minutes(slot.endTime)

(* C10: as long as a successful addUnavailability(date, slots) is the last  *)
(* write to the doctor, getAvailability returns for that date no slot that  *)
(* overlaps one of the given slots; once removeUnavailability(date) is the  *)
(* last write, it returns for that date the whole slot list of the weekly   *)
(* rule of the date's weekday.                                              *)
C10_HiddenUntilRemoved ==
    GotAvailability =>
        \A n \in RecordsOfLastWrite :
            LET rec == response.body[n]
            IN  /\ lastWrite.kind = "add" =>
                      \A k \in 1 .. Len(rec.slots) :
                          \A j \in 1 .. Len(lastWrite.slots) :
                              ~OverlapsInTime(rec.slots[k], lastWrite.slots[j])
                /\ lastWrite.kind = "remove" /\ lastWrite.undoes =>
                      rec.slots = RuleSlots(OwnerOf(rec), WeekdayOfDate(rec.date))

----------------------------------------------------------------------------
(* The specification of several doctors: two users make and change their    *)
(* profiles, and availability is asked of one doctor or of all              *)

MultiUsers == {"u1", "u2"}

MultiProfiles ==
    {ProfileBody("BIG1", "full", Given(MondayClinic), Absent),
     ProfileBody("BIG2", "full", Given(WeekPlan), Absent)}

\* every range of days of the window, in order or inverted, and dates that
\* are missing or do not parse
AllRanges ==
    {<<YMD(a), YMD(b)>> : a, b \in Days} \cup {<<AbsentDate, YMD(0)>>, <<YMD(0), GarbageDate>>}

MultiQueries == {Query(id, r[1], r[2]) : id \in {"", "d1", "d2", "d9", "abc"}, r \in AllRanges}

NextMulti ==
    \/ \E u \in MultiUsers, body \in MultiProfiles :
          Call(createOrUpdateProfile(doctors, u, body))
    \/ \E u \in MultiUsers, body \in {UpdateBody(Absent, Absent, Given("VERIFIED")),
                                        UpdateBody(Absent, Absent, Given("REJECTED")),
                                        UpdateBody(Absent, Given(Undated), Absent)} :
          Call(updateProfile(doctors, u, body, FALSE))
    \/ \E u \in MultiUsers : Call(addUnavailability(doctors, u, AddBody(YMD(0), SlotsArray(Morning), "leave")))
    \/ \E q \in MultiQueries : GetAvailability(q, 0)

SpecMulti == Init /\ [][NextMulti]_vars

\* the doctors an answered query resolved, in the order they were read
Resolved ==
    IF response.req.doctorId # ""
    THEN <<doctors[findById(doctors, response.req.doctorId)]>>
    ELSE SelectSeq(doctors, LAMBDA d : d.status = "VERIFIED")

\* the number of calendar days of the range asked, both ends included
DaysAsked == response.req.endDate.day - response.req.startDate.day + 1

(* C7: an answer of getAvailability for a range of N days and k resolved    *)
(* doctors has exactly k*N records; the records of one doctor are           *)
(* contiguous, the doctors come in the order they were read, and within a   *)
(* doctor the dates go from the start date to the end date, one day at a    *)
(* time; with no doctor the answer is empty.                                *)
C7_DoctorMajorDateAscending ==
    GotAvailability =>
        LET N == DaysAsked
            k == Len(Resolved)
            body == response.body
        IN  /\ N >= 1
            /\ Len(body) = k * N
            /\ \A n \in 1 .. Len(body) :
                  LET doc == Resolved[((n - 1) \div N) + 1]
                  IN  /\ body[n].date = response.req.startDate.day + ((n - 1) % N)
                      /\ response.req.doctorId = "" =>
                            /\ body[n].doctorId = doc.id
                            /\ body[n].doctorName = doctorName(doc)
            /\ k = 0 => body = <<>>

\* two verified doctors over several days: the second doctor's block follows
\* the whole block of the first
C7_Witness ==
    /\ GotAvailability
    /\ response.req.doctorId = ""
    /\ Len(Resolved) = 2
    /\ DaysAsked = MaxDay
    /\ response.body[1].doctorId # response.body[DaysAsked + 1].doctorId
    /\ response.body[DaysAsked].date = response.req.endDate.day

----------------------------------------------------------------------------
(* The concurrent specification: addUnavailability calls of one doctor      *)
(* whose awaits (findOne at line 805, save at line 818) interleave          *)

\* the collection after the doctor made a profile
OneDoctor ==
    createOrUpdateProfile(<<>>, "u1",
        ProfileBody("BIG1", "full", Given(MondayClinic), Absent))[1]

InitConc ==
    /\ doctors = OneDoctor
    /\ response = NoReply
    /\ before = <<>>
    /\ lastWrite = NoWrite
    /\ calls = [p \in Procs |-> Idle]
    /\ saves = 0
    /\ messages = <<>>
    /\ users = <<>>
    /\ sessions = <<>>
    /\ phoneFormat = "asGiven"

AddRequest(body) ==
    [userId |-> "u1", date |-> body.date, slots |-> body.slots, reason |-> body.reason]

\* lines 805-817: the read, and then without another await the checks, the
\* filter and the push on the document in memory
AddFind(p, body) ==
    LET i == findOne(doctors, "u1")
        status == IF i = 0 THEN 404
                  ELSE IF addRejected(body) THEN 400
                  ELSE IF ~NewDate(body.date).valid \/ dateThrows(doctors[i].unavailability)
                  THEN 500 ELSE 0
    IN  /\ calls[p].pc = "idle"
        /\ calls' = [calls EXCEPT ![p] =
              IF status # 0
              THEN [Idle EXCEPT !.pc = "done", !.body = body, !.status = status]
              ELSE [pc |-> "saving", body |-> body, doc |-> withException(doctors[i], body),
                    readAt |-> saves, triedAt |-> 0, status |-> 0]]
        /\ response' = IF status # 0
                       THEN Reply("addUnavailability", status, AddRequest(body), "error")
                       ELSE response
        /\ UNCHANGED <<doctors, before, lastWrite, saves, chatAuth>>

\* lines 818-819: the save and the answer. The update sets a whole array,
\* so save() asks for the version it read and increments it: a document
\* saved since the read matches no more, and save() throws a VersionError
AddSave(p) ==
    LET c == calls[p]
        ok == saveSucceeds(doctors, c.doc) /\ versionMatches(c.readAt, saves)
    IN  /\ c.pc = "saving"
        /\ doctors' = IF ok THEN saveUnavailability(doctors, c.doc) ELSE doctors
        /\ before' = doctors
        /\ saves' = IF ok THEN saves + 1 ELSE saves
        /\ calls' = [calls EXCEPT ![p] =
              [c EXCEPT !.pc = "done", !.status = IF ok THEN 200 ELSE 500,
                        !.triedAt = saves]]
        /\ response' = IF ok
                       THEN Reply("addUnavailability", 200, AddRequest(c.body),
                                  c.doc.unavailability)
                       ELSE Reply("addUnavailability", 500, AddRequest(c.body),
                                  "Failed to add unavailability")
        /\ UNCHANGED <<lastWrite, chatAuth>>

NextConc ==
    \/ \E p \in Procs, body \in AddBodies : AddFind(p, body)
    \/ \E p \in Procs : AddSave(p)

SpecConc == InitConc /\ [][NextConc]_vars

\* calls p and q, for different dates, both went on to save, and both read
\* the doctor before either saved; p saved first
Interleaved(p, q) ==
    /\ p # q
    /\ calls[p].pc = "done" /\ calls[q].pc = "done"
    /\ calls[p].doc # <<>> /\ calls[q].doc # <<>>
    /\ validate(calls[p].doc) /\ validate(calls[q].doc)
    /\ calls[p].body.date.day # calls[q].body.date.day
    /\ calls[p].readAt = calls[q].readAt
    /\ calls[p].triedAt = calls[p].readAt
    /\ calls[q].triedAt > calls[p].triedAt

\* the stored unavailability of the doctor
StoredExceptions == doctors[findOne(doctors, "u1")].unavailability

----------------------------------------------------------------------------
(* The time-string specification: one doctor stores weekly slots and        *)
(* exception slots with every candidate time string, and asks for the day   *)

\* time strings a caller may send: zero-padded, single-digit hour, and an
\* hour no day has
CandidateTimes == {HHMM(9, 0), HHMM(10, 0), HMM(9, 0), HHMM(24, 0)}

\* time strings for the slots of an exception
ExceptionTimes == {HHMM(9, 30), HHMM(10, 0), HMM(9, 30)}

OneSlotRule(a, b) == <<[day |-> "monday", slots |-> <<Slot(a, b)>>]>>

NextTime ==
    \/ Call(createOrUpdateProfile(doctors, "u1", ProfileBody("BIG1", "full", Absent, Absent)))
    \/ \E a, b \in CandidateTimes :
          Call(updateAvailability(doctors, "u1", Given(OneSlotRule(a, b))))
    \/ \E c, d \in ExceptionTimes :
          Call(addUnavailability(doctors, "u1",
                   AddBody(YMD(0), SlotsArray(<<Slot(c, d)>>), "leave")))
    \/ GetAvailability(Query("d1", YMD(0), YMD(0)), 0)

SpecTime == Init /\ [][NextTime]_vars

\* every start and end time stored in the slots of an array of rules or of
\* exceptions
TimesOf(entries) ==
    UNION {UNION {{entries[i].slots[j].startTime, entries[i].slots[j].endTime} :
                     j \in 1 .. Len(entries[i].slots)} : i \in 1 .. Len(entries)}

StoredTimes == UNION {TimesOf(doctors[d].availability) \cup TimesOf(doctors[d].unavailability) :
                         d \in 1 .. Len(doctors)}

(* C6: any two time strings stored as a slot's startTime or endTime, in a   *)
(* weekly rule or in an exception, compare as strings the way their times   *)
(* of day compare, and so every answer of getAvailability drops exactly the *)
(* slots that overlap the exception in time.                                *)
C6_LexicographicIsChronological ==
    /\ \A x, y \in StoredTimes : StrLess(x, y) <=> Minutes(x) < Minutes(y)
    /\ GotAvailability =>
          \A n \in 1 .. Len(response.body) :
              LET rec == response.body[n]
                  doc == OwnerOf(rec)
              IN  rec.slots = SelectSeq(BaseOf(rec), LAMBDA slot :
                      \A ex \in ExceptionSlots(doc, rec.date) : ~OverlapsInTime(slot, ex))

----------------------------------------------------------------------------
\* the document has a weekly rule for the weekday
HasRule(doc, weekday) ==
    \E i \in 1 .. Len(doc.availability) : doc.availability[i].day = weekday

(* C11: for every record of an answer whose date falls on a weekday for     *)
(* which the doctor has no weekly rule, the slot list is empty, whatever    *)
(* exceptions the doctor has.                                               *)
C11_NoRuleNoSlots ==
    GotAvailability =>
        \A n \in 1 .. Len(response.body) :
            LET rec == response.body[n]
            IN  ~HasRule(OwnerOf(rec), WeekdayOfDate(rec.date)) => rec.slots = <<>>

(* C12: for every record of an answer whose date has no unavailability      *)
(* exception, the slots are the slots of the weekly rule of the date's      *)
(* weekday: the same elements in the same order, sorted or not.             *)
C12_RuleSlotsUntouched ==
    GotAvailability =>
        \A n \in 1 .. Len(response.body) :
            LET rec == response.body[n]
                doc == OwnerOf(rec)
            IN  EntriesFor(doc, rec.date) = {} =>
                    rec.slots = RuleSlots(doc, WeekdayOfDate(rec.date))

----------------------------------------------------------------------------
\* removeUnavailability was called with a date by a user who has a profile
RemoveCalled ==
    /\ response.handler = "removeUnavailability"
    /\ response.req.date.kind = "ymd"
    /\ findOne(before, response.req.userId) # 0

\* the entries a document has for the dates other than day, in order
OtherDates(doc, day) == SelectSeq(doc.unavailability, LAMBDA u : toISODate(u.date) # day)

(* C13: removeUnavailability for a date on which the doctor has no          *)
(* exception answers without error and leaves the collection as it was (so  *)
(* a second removal of a date changes nothing), and no removal removes an   *)
(* entry of another date.                                                   *)
C13_RemoveAbsentIsNoOp ==
    RemoveCalled =>
        LET i == findOne(before, response.req.userId)
            day == response.req.date.day
        IN  /\ EntriesFor(before[i], day) = {} =>
                  response.status = 200 /\ doctors = before
            /\ OtherDates(doctors[i], day) = OtherDates(before[i], day)

----------------------------------------------------------------------------
\* the range of the query answered is one getAvailability must refuse
BadRangeAsked ==
    \/ response.req.startDate.kind # "ymd"
    \/ response.req.endDate.kind # "ymd"
    \/ response.req.startDate.day > response.req.endDate.day

(* C14: getAvailability answers 400 with an error and no records whenever   *)
(* startDate or endDate is missing or does not parse or startDate is after  *)
(* endDate, whatever doctor is asked for and whatever is stored (the check  *)
(* comes before any doctor is read), and writes nothing; it refuses no      *)
(* other range, and a range of one day yields one record per doctor.        *)
C14_InvalidRangeRejected ==
    response.handler = "getAvailability" =>
        /\ BadRangeAsked =>
              /\ response.status = 400
              /\ response.body \in {"startDate and endDate are required", "Invalid date range"}
              /\ doctors = before
        /\ ~BadRangeAsked => response.status # 400
        /\ ~BadRangeAsked /\ response.status = 200 /\ DaysAsked = 1 =>
              /\ Len(response.body) = Len(Resolved)
              /\ \A n \in 1 .. Len(response.body) :
                    response.body[n].date = response.req.startDate.day

\* an inverted range asked of an id no doctor has, with doctors stored: the
\* answer is 400, not 404
C14_Witness ==
    /\ response.handler = "getAvailability"
    /\ response.status = 400
    /\ response.req.doctorId = "d9"
    /\ response.req.startDate.kind = "ymd" /\ response.req.endDate.kind = "ymd"
    /\ response.req.startDate.day > response.req.endDate.day
    /\ Len(doctors) = 2

----------------------------------------------------------------------------
\* addUnavailability was called by a user who has a profile
AddCalled ==
    /\ response.handler = "addUnavailability"
    /\ findOne(before, response.req.userId) # 0

\* the body lacks the date, or its slots are missing, no array, or empty
AddBodyLacking ==
    \/ response.req.date.kind = "absent"
    \/ response.req.slots.kind # "array"
    \/ response.req.slots.items = <<>>

(* C15: addUnavailability of a doctor answers 400 whenever the date is      *)
(* missing or the slots are missing, not an array, or empty, and then       *)
(* nothing stored has changed: neither the unavailability nor the           *)
(* availability of the doctor, nor anything else.                           *)
C15_AddValidation ==
    AddCalled /\ AddBodyLacking =>
        /\ response.status = 400
        /\ doctors = before

\* an empty slot list refused for a doctor who has rules and an exception
C15_Witness ==
    /\ AddCalled
    /\ response.status = 400
    /\ response.req.date.kind = "ymd"
    /\ response.req.slots.kind = "array"
    /\ response.req.slots.items = <<>>
    /\ doctors[CallerDoc].availability # <<>>
    /\ doctors[CallerDoc].unavailability # <<>>

----------------------------------------------------------------------------
UpdatedAvailability == response.handler = "updateAvailability"

(* C16: a successful updateAvailability(rules) leaves the doctor's          *)
(* availability equal to the given rules, nothing of the array before       *)
(* surviving, and changes neither the unavailability nor the status; for a  *)
(* caller without a doctor profile it answers 404 and writes nothing.       *)
C16_WholesaleReplace ==
    UpdatedAvailability =>
        LET i == findOne(before, response.req.userId)
        IN  /\ response.status = 200 =>
                  /\ i # 0
                  /\ doctors[i].availability = response.req.availability.value
                  /\ doctors[i].unavailability = before[i].unavailability
                  /\ doctors[i].status = before[i].status
            /\ i = 0 => response.status = 404 /\ doctors = before

\* rules replaced by other rules, none of the old ones among them, for a
\* doctor who has an exception
C16_Witness ==
    /\ UpdatedAvailability
    /\ response.status = 200
    /\ LET old == before[CallerDoc]
           new == doctors[CallerDoc]
       IN  /\ old.availability # <<>>
           /\ new.availability # <<>>
           /\ \A a \in 1 .. Len(old.availability), b \in 1 .. Len(new.availability) :
                 old.availability[a] # new.availability[b]
           /\ old.unavailability # <<>>

----------------------------------------------------------------------------
(* C17: getAvailability is a pure read: whatever the query and whatever the *)
(* outcome (400, 404, 500 or 200), every doctor document, its availability  *)
(* and unavailability arrays included, is after the call what it was        *)
(* before, and no document is added or removed.                             *)

C17_PureRead ==
    response.handler = "getAvailability" =>
        /\ doctors = before
        /\ \A i \in DOMAIN doctors :
              /\ doctors[i].availability = before[i].availability
              /\ doctors[i].unavailability = before[i].unavailability

\* an answered query over a doctor who has both rules and exceptions stored
C17_Witness ==
    /\ response.handler = "getAvailability"
    /\ response.status = 200
    /\ \E i \in DOMAIN doctors :
          doctors[i].availability # <<>> /\ doctors[i].unavailability # <<>>

----------------------------------------------------------------------------
(* The doctor filters: two doctors of different specializations, the        *)
(* listing, and availability queries that name a specialization             *)

Specializations == {"cardiology", "dermatology"}

FilterProfiles ==
    {[ProfileBody(r, "full", Given(MondayClinic), Absent) EXCEPT !.specializations = <<sp>>] :
        r \in {"BIG1", "BIG2"}, sp \in Specializations}

ListQuery(specialization, verified) ==
    [specialization |-> specialization, verified |-> verified]

ListQueries ==
    {ListQuery(sp, v) : sp \in Specializations \cup {""}, v \in {"", "true", "false"}}

FilterQueries ==
    {[Query(id, YMD(0), YMD(0)) EXCEPT !.specialization = sp] :
        id \in {"", "d1"}, sp \in Specializations \cup {""}}

GetDoctors(q) == Call(getDoctors(doctors, q))

NextFilter ==
    \/ \E u \in MultiUsers, body \in FilterProfiles :
          Call(createOrUpdateProfile(doctors, u, body))
    \/ \E u \in MultiUsers :
          Call(updateProfile(doctors, u, UpdateBody(Absent, Absent, Given("VERIFIED")), FALSE))
    \/ \E q \in ListQueries : GetDoctors(q)
    \/ \E q \in FilterQueries : GetAvailability(q, 0)

SpecFilter == Init /\ [][NextFilter]_vars

\* the ids of the documents the listing returns for the filters of the
\* availability query just answered, verified doctors only
ListedIds ==
    LET page == getDoctors(doctors, ListQuery(response.req.specialization, "true"))[2].body
    IN  {page[k].id : k \in DOMAIN page}

(* C18: an availability query without doctorId applies the filters of the   *)
(* doctor listing: every record of its answer belongs to a doctor the       *)
(* listing returns for the same filters, so with a specialization given     *)
(* only doctors having that specialization contribute records.              *)

C18_SameFiltersAsListing ==
    (GotAvailability /\ response.req.doctorId = "") =>
        \A k \in DOMAIN response.body : response.body[k].doctorId \in ListedIds

----------------------------------------------------------------------------
(* C19: every record of an answer of getAvailability carries doctorId and   *)
(* doctorName when the request named no doctorId, and neither of them when  *)
(* it named one; in the first case doctorId is the id of a resolved doctor  *)
(* and the record's slots are all slots of one weekly rule of that doctor.  *)

\* the fields naming the owner of a record
DoctorMeta == {"doctorId", "doctorName"}

\* every slot of the record is a slot of one rule of the document
FromRulesOf(doc, rec) ==
    \/ rec.slots = <<>>
    \/ \E r \in DOMAIN doc.availability :
          \A j \in DOMAIN rec.slots :
              \E m \in DOMAIN doc.availability[r].slots :
                  rec.slots[j] = doc.availability[r].slots[m]

C19_DoctorMetaIffMulti ==
    GotAvailability =>
        \A n \in DOMAIN response.body :
            LET rec == response.body[n]
            IN  IF response.req.doctorId = ""
                THEN /\ DoctorMeta \subseteq DOMAIN rec
                     /\ \E i \in DOMAIN doctors :
                           /\ doctors[i].id = rec.doctorId
                           /\ doctors[i].status = "VERIFIED"
                           /\ rec.doctorName = doctorName(doctors[i])
                           /\ FromRulesOf(doctors[i], rec)
                ELSE DoctorMeta \cap DOMAIN rec = {}

\* an answer for all doctors with slots of two different doctors in it
C19_Witness ==
    /\ GotAvailability
    /\ response.req.doctorId = ""
    /\ \E n, m \in DOMAIN response.body :
          /\ response.body[n].doctorId # response.body[m].doctorId
          /\ response.body[n].slots # <<>>
          /\ response.body[m].slots # <<>>
          /\ response.body[n].slots # response.body[m].slots

----------------------------------------------------------------------------
(* C20: getAvailability called with a valid range and a doctorId that       *)
(* matches no doctor answers 404 "Doctor not found" with no availability    *)
(* records, whatever doctors are stored: it never answers with the records  *)
(* of the multi-doctor query.                                               *)

\* the query just answered named a doctor no document has, over a range that
\* passes the checks of lines 629-637
UnknownDoctorAsked ==
    /\ response.handler = "getAvailability"
    /\ response.req.doctorId # ""
    /\ findById(doctors, response.req.doctorId) = 0
    /\ response.req.startDate.kind # "absent"
    /\ response.req.endDate.kind # "absent"
    /\ ~invalidRange(NewDate(response.req.startDate), NewDate(response.req.endDate))

C20_UnknownDoctorNotFound ==
    UnknownDoctorAsked =>
        /\ response.status = 404
        /\ response.body = "Doctor not found"

----------------------------------------------------------------------------
(* The chat handler (src/unnamed/part_003): sendMessage and uploadFile over *)
(* the Message collection, each as the collection it leaves and the         *)
(* response it sends.  The Appointment collection is read only.             *)

\* the appointments: two of patient u3 with the doctor of user u1, and one
\* whose doctor has no document
Appointments ==
    <<[id |-> "a1", doctorId |-> "d1", patientId |-> "u3"],
      [id |-> "a2", doctorId |-> "d1", patientId |-> "u3"],
      [id |-> "a3", doctorId |-> "d9", patientId |-> "u3"]>>

\* Appointment.findById(appointmentId)
findAppointment(appointmentId) == FindIndex(Appointments, LAMBDA a : a.id = appointmentId)

\* Message.find({ chatId }).sort({ createdAt: 1 })
chatMessages(coll, chatId) == SelectSeq(coll, LAMBDA m : m.chatId = chatId)

\* lines 67-78: the patient's messages at the end of the chat, counted back
\* to the first message of anyone else
RECURSIVE consecutiveUserMessages(_, _, _)
consecutiveUserMessages(msgs, doctorUserId, patientUserId) ==
    IF msgs = <<>> THEN 0
    ELSE LET msg == msgs[Len(msgs)]
         IN  IF msg.senderId = doctorUserId THEN 0
             ELSE IF msg.senderId = patientUserId
             THEN 1 + consecutiveUserMessages(SubSeq(msgs, 1, Len(msgs) - 1),
                                              doctorUserId, patientUserId)
             ELSE 0

\* the cap test with > in place of >=
capReachedAbove(consecutive) == consecutive > 3

\* consecutiveUserMessages >= 3
capReached(consecutive) == consecutive >= 3

\* new Message({ chatId, senderId, content, type })
newMessage(chatId, senderId, type) ==
    [chatId |-> chatId, senderId |-> senderId, type |-> type]

\* sendMessage: lines 42-108
sendMessage(coll, docs, appointmentId, senderId, type) ==
    LET req == [appointmentId |-> appointmentId, senderId |-> senderId, type |-> type]
        a == findAppointment(appointmentId)
        d == findById(docs, Appointments[a].doctorId)
        doctorUserId == docs[d].userId
        patientUserId == Appointments[a].patientId
    IN  IF a = 0
        THEN <<coll, Reply("sendMessage", 404, req, "Appointment not found")>>
        ELSE IF d = 0
        THEN <<coll, Reply("sendMessage", 404, req, "Doctor not found")>>
        ELSE IF /\ senderId = patientUserId
                /\ capReached(consecutiveUserMessages(chatMessages(coll, appointmentId),
                                                      doctorUserId, patientUserId))
        THEN <<coll, Reply("sendMessage", 403, req,
                           "You can only send 3 messages until the doctor replies.")>>
        ELSE <<Append(coll, newMessage(appointmentId, senderId, type)),
               Reply("sendMessage", 201, req, newMessage(appointmentId, senderId, type))>>

\* uploadFile: lines 110-150; hasFile is req.file, uploaded the outcome of
\* AWSService.uploadToS3
uploadFile(coll, appointmentId, senderId, hasFile, uploaded) ==
    LET req == [appointmentId |-> appointmentId, senderId |-> senderId, type |-> "file"]
    IN  IF ~hasFile
        THEN <<coll, Reply("uploadFile", 400, req, "No file uploaded")>>
        ELSE IF ~uploaded
        THEN <<coll, Reply("uploadFile", 500, req, "Server error")>>
        ELSE <<Append(coll, newMessage(appointmentId, senderId, "file")),
               Reply("uploadFile", 201, req, newMessage(appointmentId, senderId, "file"))>>

\* the users who send: the doctor's user, the patient, and a third user
Senders == {"u1", "u3", "u4"}

AppointmentIds == {"a1", "a2", "a3", "a9"}

InitChat ==
    /\ doctors = OneDoctor
    /\ response = NoReply
    /\ before = <<>>
    /\ lastWrite = NoWrite
    /\ calls = [p \in Procs |-> Idle]
    /\ saves = 0
    /\ messages = <<>>
    /\ users = <<>>
    /\ sessions = <<>>
    /\ phoneFormat = "asGiven"

\* a chat handler call that ends with Message collection result[1] and
\* response result[2]
ChatCall(result) ==
    \E r \in {result} :
        /\ Len(r[1]) <= MaxMessages
        /\ messages' = r[1]
        /\ response' = r[2]
        /\ before' = messages
        /\ UNCHANGED <<doctorState, phoneFormat, calls, users, sessions>>

SendMessage(appointmentId, senderId) ==
    ChatCall(sendMessage(messages, doctors, appointmentId, senderId, "text"))

UploadFile(appointmentId, senderId, hasFile, uploaded) ==
    ChatCall(uploadFile(messages, appointmentId, senderId, hasFile, uploaded))

NextChat == \E a \in AppointmentIds, u \in Senders : SendMessage(a, u)

SpecChat == InitChat /\ [][NextChat]_vars

\* the senders of the last n messages of a chat are all the patient
LastAreFromPatient(msgs, n) ==
    /\ Len(msgs) >= n
    /\ \A k \in Len(msgs) - n + 1 .. Len(msgs) : msgs[k].senderId = "u3"

\* no chat of the collection holds four consecutive messages of the patient
NoFourInARow(coll) ==
    \A a \in AppointmentIds :
        LET msgs == chatMessages(coll, a)
        IN  \A k \in 1 .. Len(msgs) - 3 :
                \E j \in k .. k + 3 : msgs[j].senderId # "u3"

\* the call just answered was a sendMessage on a chat of the doctor and the patient
SentOnChat ==
    /\ response.handler = "sendMessage"
    /\ response.req.appointmentId \in {"a1", "a2"}

(* C21: in any sequence of sendMessage calls on an appointment chat, a      *)
(* message of the patient is answered 403 and not stored exactly when the   *)
(* three most recent messages of the chat are all the patient's; every      *)
(* other message is stored and answered 201, so a doctor's message is never *)
(* rejected and the patient can send again after one; no chat ever holds    *)
(* four consecutive messages of the patient.                                *)

C21_ChatCap ==
    /\ NoFourInARow(messages)
    /\ SentOnChat =>
          LET chat == chatMessages(before, response.req.appointmentId)
              capped == response.req.senderId = "u3" /\ LastAreFromPatient(chat, 3)
          IN  /\ response.status = 403 <=> capped
              /\ capped => messages = before
              /\ ~capped =>
                    /\ response.status = 201
                    /\ messages = Append(before, response.body)
                    /\ response.body.senderId = response.req.senderId
                    /\ response.body.chatId = response.req.appointmentId

\* the patient is rejected again after a doctor's message had let them send
C21_Witness ==
    /\ SentOnChat
    /\ response.status = 403
    /\ \E k \in DOMAIN messages :
          /\ messages[k].chatId = response.req.appointmentId
          /\ messages[k].senderId = "u1"
          /\ k >= 2 /\ messages[k - 1].senderId = "u3"

----------------------------------------------------------------------------
(* The chat with both message-creating operations *)

\* one chat, the doctor's user and the patient
NextChatUpload ==
    \/ \E u \in {"u1", "u3"} : SendMessage("a1", u)
    \/ \E u \in {"u1", "u3"}, hasFile \in BOOLEAN, uploaded \in BOOLEAN :
          UploadFile("a1", u, hasFile, uploaded)

SpecChatUpload == InitChat /\ [][NextChatUpload]_vars

(* C22: the cap holds over every operation that creates a message: after   *)
(* any sequence of sendMessage and uploadFile calls no chat holds four      *)
(* consecutive messages of the patient with no doctor message among them.   *)

C22_CapOverUploads == NoFourInARow(messages)

----------------------------------------------------------------------------
(* The chat under concurrent sendMessage calls whose awaits (the find of    *)
(* line 65, the save of line 91) interleave                                 *)

\* lines 49-82: the reads and the count; the call ends here with 404 or 403,
\* or goes on to the insert
SendCheck(p, appointmentId, senderId) ==
    LET result == sendMessage(messages, doctors, appointmentId, senderId, "text")
        reply == result[2]
    IN  /\ calls[p].pc \in {"idle", "done"}
        /\ calls' = [calls EXCEPT ![p] =
              IF reply.status # 201
              THEN [Idle EXCEPT !.pc = "done", !.body = reply.req, !.status = reply.status]
              ELSE [Idle EXCEPT !.pc = "saving", !.body = reply.req,
                                !.doc = reply.body, !.readAt = Len(messages)]]
        /\ response' = IF reply.status # 201 THEN reply ELSE response
        /\ UNCHANGED <<doctorState, phoneFormat, before, messages, users, sessions>>

\* lines 85-103: the insert and the answer
SendSave(p) ==
    LET c == calls[p]
    IN  /\ c.pc = "saving"
        /\ Len(messages) < MaxMessages
        /\ messages' = Append(messages, c.doc)
        /\ before' = messages
        /\ calls' = [calls EXCEPT ![p] = [c EXCEPT !.pc = "done", !.status = 201,
                                                   !.triedAt = Len(messages)]]
        /\ response' = Reply("sendMessage", 201, c.body, c.doc)
        /\ UNCHANGED <<doctorState, phoneFormat, users, sessions>>

NextChatConc ==
    \/ \E p \in Procs, u \in {"u1", "u3"} : SendCheck(p, "a1", u)
    \/ \E p \in Procs : SendSave(p)

SpecChatConc == InitChat /\ [][NextChatConc]_vars

(* C23: under concurrent sendMessage calls of the patient on one chat, no   *)
(* interleaving of their count and insert steps stores a fourth             *)
(* consecutive message of the patient.                                      *)

C23_CapUnderConcurrency ==
    LET chat == chatMessages(messages, "a1")
    IN  ~ \E k \in 4 .. Len(chat) : LastAreFromPatient(SubSeq(chat, 1, k), 4)

----------------------------------------------------------------------------
(* C24: no doctor-facing handler moves a doctor to VERIFIED: after a call   *)
(* of registerDoctor, verifyRegistrationNumber, verifyRegistration,         *)
(* createOrUpdateProfile, updateProfile, updateAvailability,                *)
(* addUnavailability or removeUnavailability, every doctor that is VERIFIED *)
(* was VERIFIED before the call.                                            *)

DoctorFacing ==
    {"registerDoctor", "verifyRegistrationNumber", "verifyRegistration",
     "createOrUpdateProfile", "updateProfile", "updateAvailability",
     "addUnavailability", "removeUnavailability"}

C24_DoctorsCannotVerifyThemselves ==
    response.handler \in DoctorFacing =>
        \A d \in DOMAIN doctors :
            doctors[d].status = "VERIFIED" =>
                d \in DOMAIN before /\ before[d].status = "VERIFIED"

----------------------------------------------------------------------------
(* C25: every record of an answer of getAvailability to a request without   *)
(* doctorId belongs to a doctor whose status is VERIFIED; a doctor in       *)
(* status DETAILS_REQUIRED, DETAILS_UPDATED or REJECTED contributes no      *)
(* record.                                                                  *)

\* the ids of the doctors named in the records of the answer
Contributors == {response.body[n].doctorId : n \in DOMAIN response.body}

C25_OnlyVerifiedContribute ==
    (GotAvailability /\ response.req.doctorId = "") =>
        \A d \in DOMAIN doctors :
            doctors[d].id \in Contributors => doctors[d].status = "VERIFIED"

\* an answer with the records of a verified doctor while a rejected doctor
\* and his rules are stored
C25_Witness ==
    /\ GotAvailability
    /\ response.req.doctorId = ""
    /\ response.body # <<>>
    /\ \E d \in DOMAIN doctors :
          /\ doctors[d].status = "REJECTED"
          /\ doctors[d].availability # <<>>
          /\ doctors[d].id \notin Contributors

----------------------------------------------------------------------------
(* The concurrent creation of doctor profiles: registerDoctor,              *)
(* verifyRegistrationNumber and createOrUpdateProfile calls whose awaits    *)
(* (the findOne by userId, the save) interleave                             *)

\* the lookup of a creating handler and what follows it without a write.
\* handled is the handler run on the collection as it is, alone the handler
\* run on a collection without documents: when findOne finds the profile
\* the call updates it and ends; when it finds none the call either ends
\* with the answer of its checks and validation, or holds the new document
\* for the insert
CreateFind(p, userId, handled, alone) ==
    LET i == findOne(doctors, userId)
    IN  /\ calls[p].pc \in {"idle", "done"}
        /\ IF i # 0
           THEN /\ doctors' = handled[1]
                /\ response' = handled[2]
                /\ before' = doctors
                /\ calls' = [calls EXCEPT ![p] =
                      [Idle EXCEPT !.pc = "done", !.status = handled[2].status]]
           ELSE /\ calls' = [calls EXCEPT ![p] =
                      IF alone[1] = <<>>
                      THEN [Idle EXCEPT !.pc = "done", !.status = alone[2].status]
                      ELSE [Idle EXCEPT !.pc = "saving", !.body = alone[2],
                                        !.doc = alone[1][1]]]
                /\ response' = IF alone[1] = <<>> THEN alone[2] ELSE response
                /\ UNCHANGED <<doctors, before>>
        /\ UNCHANGED <<lastWrite, saves, chatAuth>>

\* registerDoctor up to its save: lines 742-780
RegisterFind(p, userId) ==
    CreateFind(p, userId, registerDoctor(doctors, userId), registerDoctor(<<>>, userId))

\* verifyRegistrationNumber up to its save: lines 18-74
VerifyNumberFind(p, userId, registrationNumber) ==
    CreateFind(p, userId,
               verifyRegistrationNumber(doctors, userId, registrationNumber, TRUE),
               verifyRegistrationNumber(<<>>, userId, registrationNumber, TRUE))

\* createOrUpdateProfile up to its save: lines 108-186
ProfileFind(p, userId, body) ==
    CreateFind(p, userId, createOrUpdateProfile(doctors, userId, body),
               createOrUpdateProfile(<<>>, userId, body))

\* the insert of the new document under the unique index on
\* registrationNumber (lines 77, 187, 782), and the answer
CreateSave(p) ==
    LET c == calls[p]
        doc == [c.doc EXCEPT !.id = newId(doctors)]
        ok == uniqueRegistrationNumber(doctors, doc)
    IN  /\ c.pc = "saving"
        /\ doctors' = IF ok THEN Append(doctors, doc) ELSE doctors
        /\ before' = doctors
        /\ response' = IF ok THEN c.body
                       ELSE Reply(c.body.handler, 500, c.body.req, "Failed")
        /\ calls' = [calls EXCEPT ![p] =
              [c EXCEPT !.pc = "done", !.status = IF ok THEN c.body.status ELSE 500]]
        /\ UNCHANGED <<lastWrite, saves, chatAuth>>

RegistrationNumbers == {"BIG1", "BIG2"}

\* the calls of one user
NextCreate ==
    \/ \E p \in Procs : RegisterFind(p, "u1")
    \/ \E p \in Procs, r \in RegistrationNumbers \cup {""} : VerifyNumberFind(p, "u1", r)
    \/ \E p \in Procs, r \in RegistrationNumbers :
          ProfileFind(p, "u1", ProfileBody(r, "full", Given(MondayClinic), Absent))
    \/ \E p \in Procs : CreateSave(p)

SpecCreate == Init /\ [][NextCreate]_vars

(* C26: in every reachable state, under any interleaving of registerDoctor, *)
(* verifyRegistrationNumber and createOrUpdateProfile calls, at most one    *)
(* Doctor document exists per userId.                                       *)

C26_OneProfilePerUser ==
    \A i, j \in DOMAIN doctors :
        doctors[i].userId = doctors[j].userId => i = j

----------------------------------------------------------------------------
(* C27: registerDoctor called by a user with role doctor who has no doctor  *)
(* profile answers 201 and creates the profile with status DETAILS_REQUIRED *)
(* and an empty availability, however many doctors are stored already.      *)

\* the call just answered was a registerDoctor of a doctor without profile
RegisteredAnew ==
    /\ response.handler = "registerDoctor"
    /\ UserRoles[response.req] = "doctor"
    /\ findOne(before, response.req) = 0

C27_RegisterSucceeds ==
    RegisteredAnew =>
        LET i == findOne(doctors, response.req)
        IN  /\ response.status = 201
            /\ i # 0
            /\ doctors[i].status = "DETAILS_REQUIRED"
            /\ doctors[i].availability = <<>>

----------------------------------------------------------------------------
(* The auth handler (src/unnamed/part_004) over the User and Session        *)
(* collections.  A handler is the pair of collections it leaves and the     *)
(* response it sends: <<users, sessions, reply>>.  The outcome of           *)
(* OTPService.verifyOTP and of sending an OTP are inputs.                   *)

\* email addresses a request may carry, and the one in capitals of the first
Emails == {"a@x.nl", "A@X.NL", "b@x.nl"}

\* the setter of userSchema.email (lowercase: true), which Mongoose runs on
\* the document and on the filter of a query
lowercase(email) == IF email = "A@X.NL" THEN "a@x.nl" ELSE email

\* phone numbers of the form /^\+?[1-9]\d{1,14}$/
PhoneNumbers == {"+31611", "31611", "31622"}

\* the functions formatPhoneNumber may be: it returns the number as given,
\* or the number without its '+'
PhoneFormats == {"asGiven", "digits"}

\* formatPhoneNumber(phone).number under one of them
formatPhoneNumber(number, format) ==
    IF format = "digits" /\ number = "+31611" THEN "31611" ELSE number

UserIds == <<"u1", "u2", "u3", "u4">>

\* User.findOne({ email }): index of the first match, 0 when none
findByEmail(coll, email) == FindIndex(coll, LAMBDA u : u.email = lowercase(email))

\* User.findOne({ 'phone.number': number })
findByPhone(coll, number) == FindIndex(coll, LAMBDA u : u.phone = number)

\* User.findOne({ $or: [{ email }, { 'phone.number': phone.number }] })
findExisting(coll, body) ==
    FindIndex(coll, LAMBDA u : u.email = lowercase(body.email) \/ u.phone = body.phone)

\* the insert with the unique index on phone.number left out
uniqueEmailOnly(coll, user) ==
    \A i \in DOMAIN coll : coll[i].email # user.email

\* the unique indexes on email (line 37) and on phone.number (line 105)
uniqueUser(coll, user) ==
    \A i \in DOMAIN coll : coll[i].email # user.email /\ coll[i].phone # user.phone

\* new User({ ..., isEmailVerified: false, isPhoneVerified: false }) with
\* the phone number as formatted
newUser(coll, body, formatted) ==
    [id |-> UserIds[Len(coll) + 1], email |-> lowercase(body.email), phone |-> formatted,
     isEmailVerified |-> FALSE, isPhoneVerified |-> FALSE, lastLogin |-> 0]

\* lines 320-398: the answer of the field checks (body.valid stands for all
\* of them) and of the existence check, 0 when the call goes on to the insert
registerChecks(coll, body) ==
    IF ~body.valid THEN 400
    ELSE IF findExisting(coll, body) # 0 THEN 409
    ELSE 0

\* lines 401-462: the insert under the unique indexes, the OTP, the answer
registerInsert(coll, body, formatted, otpSent) ==
    LET user == newUser(coll, body, formatted)
    IN  IF ~uniqueUser(coll, user)
        THEN <<coll, Reply("register", 400, body, "already exists")>>
        ELSE IF ~otpSent
        THEN <<Append(coll, user), Reply("register", 500, body, "Failed to register user")>>
        ELSE <<Append(coll, user), Reply("register", 201, body, user)>>

\* register: lines 303-473
register(coll, body, formatted, otpSent) ==
    LET status == registerChecks(coll, body)
    IN  IF status # 0
        THEN <<coll, Reply("register", status, body, "rejected")>>
        ELSE registerInsert(coll, body, formatted, otpSent)

\* the lookup of verifyLogin, lines 85-88
findLogin(coll, body) ==
    IF body.type = "email" THEN findByEmail(coll, body.identifier)
    ELSE findByPhone(coll, body.identifier)

\* a verifyLogin that makes the session before it checks the OTP
verifyLoginEager(coll, sess, body, otpOk) ==
    LET session == [id |-> Len(sess) + 1, userId |-> "", isActive |-> TRUE]
    IN  <<coll, Append(sess, session), Reply("verifyLogin", 400, body, "Invalid OTP")>>

\* verifyLogin: lines 67-143; body.complete says that identifier, otp and
\* type are all there, otpOk is the answer of OTPService.verifyOTP
verifyLogin(coll, sess, body, otpOk) ==
    LET i == findLogin(coll, body)
        session == [id |-> Len(sess) + 1, userId |-> coll[i].id, isActive |-> TRUE]
        user == [coll[i] EXCEPT
                    !.isEmailVerified = IF body.type = "email" THEN TRUE ELSE @,
                    !.isPhoneVerified = IF body.type = "phone" THEN TRUE ELSE @,
                    !.lastLogin = session.id]
    IN  IF ~body.complete
        THEN <<coll, sess, Reply("verifyLogin", 400, body, "required")>>
        ELSE IF ~otpOk
        THEN <<coll, sess, Reply("verifyLogin", 400, body, "Invalid OTP")>>
        ELSE IF i = 0
        THEN <<coll, sess, Reply("verifyLogin", 404, body, "User not found")>>
        ELSE <<[coll EXCEPT ![i] = user], Append(sess, session),
               Reply("verifyLogin", 200, body, session)>>

\* verifyEmail: lines 476-507
verifyEmail(coll, sess, email, otpOk) ==
    LET i == findByEmail(coll, email)
    IN  IF ~otpOk THEN <<coll, sess, Reply("verifyEmail", 400, email, "Invalid OTP")>>
        ELSE IF i = 0 THEN <<coll, sess, Reply("verifyEmail", 404, email, "User not found")>>
        ELSE <<[coll EXCEPT ![i].isEmailVerified = TRUE], sess,
               Reply("verifyEmail", 200, email, "verified")>>

\* verifyPhone: lines 510-541
verifyPhone(coll, sess, phone, otpOk) ==
    LET i == findByPhone(coll, phone)
    IN  IF ~otpOk THEN <<coll, sess, Reply("verifyPhone", 400, phone, "Invalid OTP")>>
        ELSE IF i = 0 THEN <<coll, sess, Reply("verifyPhone", 404, phone, "User not found")>>
        ELSE <<[coll EXCEPT ![i].isPhoneVerified = TRUE], sess,
               Reply("verifyPhone", 200, phone, "verified")>>

\* a logout without the check of the session's owner
logoutAnyones(coll, sess, sessionId, userId) ==
    IF sessionId = 0
    THEN <<coll, sess, Reply("logout", 401, [sessionId |-> sessionId, userId |-> userId],
                             "No active session found")>>
    ELSE <<coll, [sess EXCEPT ![sessionId].isActive = FALSE],
           Reply("logout", 200, [sessionId |-> sessionId, userId |-> userId], "Logged out")>>

\* logout: lines 544-578; sessionId is the number of req.session, 0 when the
\* request has none, userId is req.user._id
logout(coll, sess, sessionId, userId) ==
    LET req == [sessionId |-> sessionId, userId |-> userId]
    IN  IF sessionId = 0
        THEN <<coll, sess, Reply("logout", 401, req, "No active session found")>>
        ELSE IF sess[sessionId].userId # userId
        THEN <<coll, sess, Reply("logout", 403, req, "Unauthorized to logout this session")>>
        ELSE <<coll, [sess EXCEPT ![sessionId].isActive = FALSE],
               Reply("logout", 200, req, "Logged out successfully")>>

\* logoutAll: lines 581-608, Session.updateMany({ userId, isActive: true }, ...)
logoutAll(coll, sess, userId) ==
    <<coll,
      [k \in DOMAIN sess |->
          IF sess[k].userId = userId /\ sess[k].isActive
          THEN [sess[k] EXCEPT !.isActive = FALSE] ELSE sess[k]],
      Reply("logoutAll", 200, [userId |-> userId], "Logged out from all devices")>>

----------------------------------------------------------------------------
(* The auth specification: one handler call at a time *)

RegisterBody(email, phone, valid) == [email |-> email, phone |-> phone, valid |-> valid]

RegisterBodies ==
    {RegisterBody(e, n, TRUE) : e \in Emails, n \in PhoneNumbers}
        \cup {RegisterBody("b@x.nl", "31622", FALSE)}

LoginBody(identifier, type, complete) ==
    [identifier |-> identifier, type |-> type, complete |-> complete]

\* logins by an email as stored and in capitals, by an email nobody has, by
\* a phone number, and one with a field missing
LoginBodies ==
    {LoginBody(e, "email", TRUE) : e \in {"a@x.nl", "A@X.NL", "c@x.nl"}}
        \cup {LoginBody("31611", "phone", TRUE), LoginBody("a@x.nl", "phone", TRUE),
              LoginBody("a@x.nl", "email", FALSE)}

\* history of the auth specification: both collections as the call found them
Both(coll, sess) == [users |-> coll, sessions |-> sess]

\* an auth handler call that ends with the collections result[1] and
\* result[2] and the response result[3]
AuthCall(result) ==
    \E r \in {result} :
        /\ Len(r[2]) <= MaxSessions
        /\ users' = r[1]
        /\ sessions' = r[2]
        /\ response' = r[3]
        /\ before' = Both(users, sessions)
        /\ UNCHANGED <<doctorState, phoneFormat, calls, messages>>

Register(body, otpSent) ==
    LET result == register(users, body, formatPhoneNumber(body.phone, phoneFormat), otpSent)
    IN  AuthCall(<<result[1], sessions, result[2]>>)

VerifyLogin(body, otpOk) == AuthCall(verifyLogin(users, sessions, body, otpOk))

VerifyEmail(email, otpOk) == AuthCall(verifyEmail(users, sessions, email, otpOk))

VerifyPhone(phone, otpOk) == AuthCall(verifyPhone(users, sessions, phone, otpOk))

Logout(sessionId, userId) == AuthCall(logout(users, sessions, sessionId, userId))

LogoutAll(userId) == AuthCall(logoutAll(users, sessions, userId))

\* the users a request may be authenticated as
AuthUsers == {"u1", "u2"}

InitAuth ==
    /\ doctors = <<>>
    /\ response = NoReply
    /\ before = Both(<<>>, <<>>)
    /\ lastWrite = NoWrite
    /\ calls = [p \in Procs |-> Idle]
    /\ saves = 0
    /\ messages = <<>>
    /\ users = <<>>
    /\ sessions = <<>>
    /\ phoneFormat \in PhoneFormats

NextAuth ==
    \/ \E body \in RegisterBodies, otpSent \in BOOLEAN : Register(body, otpSent)
    \/ \E body \in LoginBodies, otpOk \in BOOLEAN : VerifyLogin(body, otpOk)
    \/ \E email \in {"a@x.nl", "c@x.nl"}, otpOk \in BOOLEAN : VerifyEmail(email, otpOk)
    \/ \E phone \in {"31611", "31699"}, otpOk \in BOOLEAN : VerifyPhone(phone, otpOk)
    \/ \E k \in 0 .. Len(sessions), u \in AuthUsers : Logout(k, u)
    \/ \E u \in AuthUsers : LogoutAll(u)

SpecAuth == InitAuth /\ [][NextAuth]_vars

\* the sessions that are active in a Session collection
ActiveIn(sess) == {k \in DOMAIN sess : sess[k].isActive}

(* C28: a session becomes active only through verifyLogin, and only when    *)
(* the OTP check succeeded and the user was found: every session that is    *)
(* active after a call and was not before was created by a verifyLogin      *)
(* answered 200 for a stored user; a verifyLogin whose OTP check fails or   *)
(* whose user does not exist (400, 404) creates no session and changes no   *)
(* field of any user.                                                       *)

C28_SessionsOnlyByVerifiedLogin ==
    /\ ActiveIn(sessions) \ ActiveIn(before.sessions) # {} =>
          /\ response.handler = "verifyLogin"
          /\ response.status = 200
          /\ findLogin(before.users, response.req) # 0
          /\ sessions = Append(before.sessions, response.body)
          /\ response.body.userId = before.users[findLogin(before.users, response.req)].id
    /\ (response.handler = "verifyLogin" /\ response.status # 200) =>
          /\ sessions = before.sessions
          /\ users = before.users
    /\ (response.handler = "verifyLogin" /\ findLogin(before.users, response.req) = 0) =>
          response.status \in {400, 404}

\* a login refused for its OTP while the user exists and has a session,
\* after which nothing has changed
C28_Witness ==
    /\ response.handler = "verifyLogin"
    /\ response.status = 400
    /\ response.req.complete
    /\ findLogin(users, response.req) # 0
    /\ ActiveIn(sessions) # {}

----------------------------------------------------------------------------
(* C29: session deactivation is one-way and owner-scoped.  logout           *)
(* deactivates the session of the request and no other, and only when it    *)
(* belongs to the authenticated user: otherwise it answers 403 and changes  *)
(* nothing.  After logoutAll every session of the user that was active      *)
(* before is inactive and the sessions of other users are unchanged.  No    *)
(* call of any handler makes an inactive session active again.              *)

\* the sessions of a collection that do not belong to the user
NotOf(sess, userId) == {k \in DOMAIN sess : sess[k].userId # userId}

C29_DeactivationOneWayOwnerScoped ==
    LET old == before.sessions
    IN  /\ \A k \in DOMAIN old :
              /\ k \in DOMAIN sessions
              /\ sessions[k].userId = old[k].userId
              /\ ~old[k].isActive => ~sessions[k].isActive
        /\ (response.handler = "logout" /\ response.req.sessionId # 0) =>
              LET k == response.req.sessionId
              IN  /\ \A j \in DOMAIN old : j # k => sessions[j] = old[j]
                  /\ old[k].userId # response.req.userId =>
                        response.status = 403 /\ sessions = old
                  /\ old[k].userId = response.req.userId =>
                        response.status = 200 /\ ~sessions[k].isActive
        /\ response.handler = "logoutAll" =>
              /\ response.status = 200
              /\ \A k \in DOMAIN old :
                    old[k].userId = response.req.userId => ~sessions[k].isActive
              /\ \A k \in NotOf(old, response.req.userId) : sessions[k] = old[k]
              /\ DOMAIN sessions = DOMAIN old

\* a logoutAll that deactivated two sessions of one user while another
\* user's session stays active
C29_Witness ==
    /\ response.handler = "logoutAll"
    /\ Cardinality({k \in ActiveIn(before.sessions) :
                       before.sessions[k].userId = response.req.userId}) >= 2
    /\ \E k \in ActiveIn(sessions) : sessions[k].userId # response.req.userId

----------------------------------------------------------------------------
(* Concurrent register calls whose awaits (the findOne of line 379, the     *)
(* save of line 415) interleave                                             *)

\* lines 305-398: the checks; the call ends here with 400 or 409, or goes
\* on to the insert
RegisterCheck(p, body) ==
    LET status == registerChecks(users, body)
    IN  /\ calls[p].pc \in {"idle", "done"}
        /\ calls' = [calls EXCEPT ![p] =
              IF status # 0
              THEN [Idle EXCEPT !.pc = "done", !.body = body, !.status = status]
              ELSE [Idle EXCEPT !.pc = "saving", !.body = body, !.readAt = Len(users)]]
        /\ response' = IF status # 0 THEN Reply("register", status, body, "rejected")
                       ELSE response
        /\ before' = IF status # 0 THEN Both(users, sessions) ELSE before
        /\ UNCHANGED <<doctorState, phoneFormat, messages, users, sessions>>

\* lines 400-462: the insert and the answer
RegisterInsert(p, otpSent) ==
    LET c == calls[p]
        result == registerInsert(users, c.body,
                                 formatPhoneNumber(c.body.phone, phoneFormat), otpSent)
    IN  /\ c.pc = "saving"
        /\ users' = result[1]
        /\ response' = result[2]
        /\ before' = Both(users, sessions)
        /\ calls' = [calls EXCEPT ![p] =
              [c EXCEPT !.pc = "done", !.status = result[2].status,
                        !.triedAt = Len(users)]]
        /\ UNCHANGED <<doctorState, phoneFormat, messages, sessions>>

\* bodies that collide on the email in capitals, on the phone number as
\* given and on the phone number as formatted, and one that fails the checks
ConcurrentBodies ==
    {RegisterBody("a@x.nl", "+31611", TRUE), RegisterBody("A@X.NL", "31622", TRUE),
     RegisterBody("b@x.nl", "+31611", TRUE), RegisterBody("b@x.nl", "31611", TRUE),
     RegisterBody("b@x.nl", "31622", FALSE)}

NextRegister ==
    \/ \E p \in Procs, body \in ConcurrentBodies : RegisterCheck(p, body)
    \/ \E p \in Procs, otpSent \in BOOLEAN : RegisterInsert(p, otpSent)

SpecRegister == InitAuth /\ [][NextRegister]_vars

\* a stored user has the email or the phone number of the request
Taken(coll, body) ==
    \E i \in DOMAIN coll : coll[i].email = lowercase(body.email) \/ coll[i].phone = body.phone

\* the call just answered went past the existence check before another
\* call stored a user
PassedCheckThenLost ==
    \E p \in Procs :
        /\ calls[p].pc = "done"
        /\ calls[p].status = 400
        /\ calls[p].body.valid
        /\ calls[p].triedAt > calls[p].readAt

(* C30: after any sequence or interleaving of register calls no two stored  *)
(* users share an email or a phone number; a register call whose email or   *)
(* phone is taken when it ends creates no user, also when it passed the     *)
(* existence check together with a concurrent call: the unique indexes      *)
(* reject its insert; every user a register call creates has                *)
(* isEmailVerified and isPhoneVerified false.                               *)

C30_UniqueEmailAndPhone ==
    /\ \A i, j \in DOMAIN users :
          i # j => users[i].email # users[j].email /\ users[i].phone # users[j].phone
    /\ response.handler = "register" =>
          /\ Taken(before.users, response.req) =>
                users = before.users /\ response.status \in {400, 409}
          /\ users # before.users =>
                /\ Len(users) = Len(before.users) + 1
                /\ SubSeq(users, 1, Len(before.users)) = before.users
                /\ ~users[Len(users)].isEmailVerified
                /\ ~users[Len(users)].isPhoneVerified
                /\ users[Len(users)].email = lowercase(response.req.email)

\* two stored users, and a call refused by the unique index after it had
\* passed the existence check
C30_Witness ==
    /\ response.handler = "register"
    /\ response.status = 400
    /\ response.req.valid
    /\ PassedCheckThenLost
    /\ Len(users) >= 2

====
